---- MODULE Spec2Model ----
(***************************************************************************)
(* xl-cli: concurrent invocations of the command line on one workbook.     *)
(*                                                                         *)
(* The model covers the file layer (fingerprint, backup, atomic_write,     *)
(* WorkbookLock), the workbook context, the operation engine as far as the *)
(* plan executor dispatches to it, the plan validator, the response        *)
(* envelope with its exit-code mapping, and the command handlers           *)
(* apply_cmd, cell_set_cmd and wb_inspect, each run as an OS process.      *)
(***************************************************************************)
EXTENDS Integers, Sequences, FiniteSets, TLC

(***************************************************************************)
(* Bounds of the model.                                                    *)
(***************************************************************************)
MaxOps == 2      \* longest plan (number of operations)
MaxClock == 1    \* wall clock runs over 0..MaxClock seconds
MaxRows == 2     \* longest row list of table append-rows
MaxSteps == 2    \* longest workflow (number of steps)
MaxShift == 2    \* largest row or column offset of a relative fill, either way

Procs == {"p1", "p2"}
NoProc == "nobody"

None == "None"

(***************************************************************************)
(* Text helpers: a code is a sequence of characters, as the exit-code      *)
(* mapping matches substrings of it.                                       *)
(***************************************************************************)
Contains(s, sub) ==
    \E i \in 1..(Len(s) - Len(sub) + 1) : SubSeq(s, i, i + Len(sub) - 1) = sub

StartsWith(s, pre) ==
    Len(s) >= Len(pre) /\ SubSeq(s, 1, Len(pre)) = pre

EndsWith(s, suf) ==
    Len(s) >= Len(suf) /\ SubSeq(s, Len(s) - Len(suf) + 1, Len(s)) = suf

CodeChars ==
    ("ERR_WORKBOOK_NOT_FOUND" :> <<"E","R","R","_","W","O","R","K","B","O","O","K","_","N","O","T","_","F","O","U","N","D">>)
 @@ ("ERR_WORKBOOK_CORRUPT" :> <<"E","R","R","_","W","O","R","K","B","O","O","K","_","C","O","R","R","U","P","T">>)
 @@ ("ERR_PLAN_INVALID" :> <<"E","R","R","_","P","L","A","N","_","I","N","V","A","L","I","D">>)
 @@ ("ERR_PLAN_FINGERPRINT_CONFLICT" :> <<"E","R","R","_","P","L","A","N","_","F","I","N","G","E","R","P","R","I","N","T","_","C","O","N","F","L","I","C","T">>)
 @@ ("ERR_VALIDATION_FAILED" :> <<"E","R","R","_","V","A","L","I","D","A","T","I","O","N","_","F","A","I","L","E","D">>)
 @@ ("ERR_OPERATION_FAILED" :> <<"E","R","R","_","O","P","E","R","A","T","I","O","N","_","F","A","I","L","E","D">>)
 @@ ("ERR_FORMULA_OVERWRITE_BLOCKED" :> <<"E","R","R","_","F","O","R","M","U","L","A","_","O","V","E","R","W","R","I","T","E","_","B","L","O","C","K","E","D">>)
 @@ ("ERR_RANGE_INVALID" :> <<"E","R","R","_","R","A","N","G","E","_","I","N","V","A","L","I","D">>)
 @@ ("ERR_INTERNAL" :> <<"E","R","R","_","I","N","T","E","R","N","A","L">>)
 @@ ("ERR_LOCK_HELD" :> <<"E","R","R","_","L","O","C","K","_","H","E","L","D">>)
 @@ ("ERR_INVALID_ARGUMENT" :> <<"E","R","R","_","I","N","V","A","L","I","D","_","A","R","G","U","M","E","N","T">>)
 @@ ("ERR_MISSING_PARAM" :> <<"E","R","R","_","M","I","S","S","I","N","G","_","P","A","R","A","M">>)
 @@ ("ERR_WORKFLOW_INVALID" :> <<"E","R","R","_","W","O","R","K","F","L","O","W","_","I","N","V","A","L","I","D">>)
 @@ ("ERR_TABLE_NOT_FOUND" :> <<"E","R","R","_","T","A","B","L","E","_","N","O","T","_","F","O","U","N","D">>)
 @@ ("ERR_SHEET_NOT_FOUND" :> <<"E","R","R","_","S","H","E","E","T","_","N","O","T","_","F","O","U","N","D">>)
 @@ ("ERR_MISSING_DATA" :> <<"E","R","R","_","M","I","S","S","I","N","G","_","D","A","T","A">>)
 @@ ("ERR_WORKFLOW_STEP_FAILED" :> <<"E","R","R","_","W","O","R","K","F","L","O","W","_","S","T","E","P","_","F","A","I","L","E","D">>)
 @@ ("ERR_USAGE" :> <<"E","R","R","_","U","S","A","G","E">>)
 @@ ("ERR_TABLE_OVERLAP" :> <<"E","R","R","_","T","A","B","L","E","_","O","V","E","R","L","A","P">>)
 @@ ("ERR_TABLE_EXISTS" :> <<"E","R","R","_","T","A","B","L","E","_","E","X","I","S","T","S">>)
 @@ ("ERR_SCHEMA_MISMATCH" :> <<"E","R","R","_","S","C","H","E","M","A","_","M","I","S","M","A","T","C","H">>)
 @@ ("ERR_QUERY_FAILED" :> <<"E","R","R","_","Q","U","E","R","Y","_","F","A","I","L","E","D">>)
 @@ ("ERR_PLAN_TARGET_MISMATCH" :> <<"E","R","R","_","P","L","A","N","_","T","A","R","G","E","T","_","M","I","S","M","A","T","C","H">>)
 @@ ("ERR_PATTERN_INVALID" :> <<"E","R","R","_","P","A","T","T","E","R","N","_","I","N","V","A","L","I","D">>)
 @@ ("ERR_IO" :> <<"E","R","R","_","I","O">>)
 @@ ("ERR_FORMULA_BLOCKED" :> <<"E","R","R","_","F","O","R","M","U","L","A","_","B","L","O","C","K","E","D">>)
 @@ ("ERR_COLUMN_EXISTS" :> <<"E","R","R","_","C","O","L","U","M","N","_","E","X","I","S","T","S">>)
 @@ ("ERR_ASSERTION_FAILED" :> <<"E","R","R","_","A","S","S","E","R","T","I","O","N","_","F","A","I","L","E","D">>)
 @@ ("ERR_WORKFLOW_FAILED" :> <<"E","R","R","_","W","O","R","K","F","L","O","W","_","F","A","I","L","E","D">>)
 @@ ("ERR_SHEET_EXISTS" :> <<"E","R","R","_","S","H","E","E","T","_","E","X","I","S","T","S">>)
 @@ ("ERR_PROTECTED_RANGE" :> <<"E","R","R","_","P","R","O","T","E","C","T","E","D","_","R","A","N","G","E">>)
 @@ ("ERR_FILE_EXISTS" :> <<"E","R","R","_","F","I","L","E","_","E","X","I","S","T","S">>)
 @@ ("ERR_LAST_SHEET" :> <<"E","R","R","_","L","A","S","T","_","S","H","E","E","T">>)
 @@ ("ERR_COLUMN_NOT_FOUND" :> <<"E","R","R","_","C","O","L","U","M","N","_","N","O","T","_","F","O","U","N","D">>)
 @@ ("ERR_RECALC_FAILED" :> <<"E","R","R","_","R","E","C","A","L","C","_","F","A","I","L","E","D">>)
 @@ ("ERR_UNSUPPORTED_OPERATION" :> <<"E","R","R","_","U","N","S","U","P","P","O","R","T","E","D","_","O","P","E","R","A","T","I","O","N">>)

EXIT_CODES ==
    [success |-> 0, validation |-> 10, protection |-> 20, formula |-> 30,
     conflict |-> 40, io |-> 50, recalc |-> 60, unsupported |-> 70,
     internal |-> 90]

VALIDATION_CODE_MARKERS ==
    { <<"V","A","L","I","D","A","T","I","O","N">>,
      <<"S","C","H","E","M","A">>,
      <<"R","A","N","G","E">>,
      <<"P","L","A","N","_","I","N","V","A","L","I","D">>,
      <<"M","I","S","S","I","N","G","_">>,
      <<"A","S","S","E","R","T","I","O","N">>,
      <<"I","N","V","A","L","I","D","_","A","R","G","U","M","E","N","T">>,
      <<"P","A","T","T","E","R","N","_","I","N","V","A","L","I","D">>,
      <<"C","O","L","U","M","N","_","E","X","I","S","T","S">>,
      <<"W","O","R","K","F","L","O","W","_","I","N","V","A","L","I","D">>,
      <<"U","S","A","G","E">>,
      <<"T","A","R","G","E","T","_","M","I","S","M","A","T","C","H">>,
      <<"S","H","E","E","T","_","N","O","T","_","F","O","U","N","D">>,
      <<"S","H","E","E","T","_","E","X","I","S","T","S">> }

IO_CODE_MARKERS == { <<"F","I","L","E","_","E","X","I","S","T","S">> }

\* an exit_code_for that looks for the IO class before the validation markers
ClassifyCode_io_first(code) ==
    IF Contains(code, <<"P","R","O","T","E","C","T","E","D">>) THEN EXIT_CODES.protection
    ELSE IF Contains(code, <<"F","O","R","M","U","L","A">>) THEN EXIT_CODES.formula
    ELSE IF Contains(code, <<"F","I","N","G","E","R","P","R","I","N","T">>)
            \/ Contains(code, <<"C","O","N","F","L","I","C","T">>) THEN EXIT_CODES.conflict
    ELSE IF Contains(code, <<"U","N","S","U","P","P","O","R","T","E","D">>) THEN EXIT_CODES.unsupported
    ELSE IF \E m \in IO_CODE_MARKERS : Contains(code, m) THEN EXIT_CODES.io
    ELSE IF StartsWith(code, <<"E","R","R","_","I","O">>)
            \/ Contains(code, <<"L","O","C","K">>)
            \/ EndsWith(code, <<"N","O","T","_","F","O","U","N","D">>)
            \/ Contains(code, <<"C","O","R","R","U","P","T">>) THEN EXIT_CODES.io
    ELSE IF \E m \in VALIDATION_CODE_MARKERS : Contains(code, m) THEN EXIT_CODES.validation
    ELSE IF Contains(code, <<"R","E","C","A","L","C">>) THEN EXIT_CODES.recalc
    ELSE EXIT_CODES.internal

\* exit_code_for applied to the characters of the first error's code
ClassifyCode(code) ==
    IF Contains(code, <<"P","R","O","T","E","C","T","E","D">>) THEN EXIT_CODES.protection
    ELSE IF Contains(code, <<"F","O","R","M","U","L","A">>) THEN EXIT_CODES.formula
    ELSE IF Contains(code, <<"F","I","N","G","E","R","P","R","I","N","T">>)
            \/ Contains(code, <<"C","O","N","F","L","I","C","T">>) THEN EXIT_CODES.conflict
    ELSE IF Contains(code, <<"U","N","S","U","P","P","O","R","T","E","D">>) THEN EXIT_CODES.unsupported
    ELSE IF \E m \in VALIDATION_CODE_MARKERS : Contains(code, m) THEN EXIT_CODES.validation
    ELSE IF \E m \in IO_CODE_MARKERS : Contains(code, m) THEN EXIT_CODES.io
    ELSE IF StartsWith(code, <<"E","R","R","_","I","O">>)
            \/ Contains(code, <<"L","O","C","K">>)
            \/ EndsWith(code, <<"N","O","T","_","F","O","U","N","D">>)
            \/ Contains(code, <<"C","O","R","R","U","P","T">>) THEN EXIT_CODES.io
    ELSE IF Contains(code, <<"R","E","C","A","L","C">>) THEN EXIT_CODES.recalc
    ELSE EXIT_CODES.internal

ExitTable == [c \in DOMAIN CodeChars |-> ClassifyCode(CodeChars[c])]

\* exit_code_for(envelope): errors is the list of error codes of the envelope
exit_code_for(env) ==
    IF env.ok THEN EXIT_CODES.success
    ELSE IF env.errors = <<>> THEN EXIT_CODES.internal
    ELSE ExitTable[env.errors[1].code]

success_envelope(command, result) ==
    [ok |-> TRUE, command |-> command, result |-> result, errors |-> <<>>]

error_envelope(command, code, details) ==
    [ok |-> FALSE, command |-> command, result |-> None,
     errors |-> << [code |-> code, details |-> details] >>]

(***************************************************************************)
(* The workbook object model held by a WorkbookContext.                    *)
(*   sheetnames : sequence of sheet names                                  *)
(*   cells      : sparse map <<sheet, row, col>> -> value                  *)
(*   tables     : sparse map displayName -> [sheet, ref, tableColumns]     *)
(* A table ref is kept parsed, as _parse_ref returns it.                   *)
(***************************************************************************)
FormulaValues == {"=SUM(Revenue!B2:B2)", "=[@Sales]*2"}

\* isinstance(v, str) and v.startswith("=")
IsFormula(v) == v \in FormulaValues

Casefold ==
    ("Region" :> "region") @@ ("Sales" :> "sales") @@ ("SALES" :> "sales")
 @@ ("Margin" :> "margin") @@ ("Extra" :> "extra") @@ ("region" :> "region")

Range(f) == {f[x] : x \in DOMAIN f}

CellValue(wb, sheet, row, col) ==
    IF <<sheet, row, col>> \in DOMAIN wb.cells THEN wb.cells[<<sheet, row, col>>] ELSE None

\* cell.value = value
AssignCell(cells, sheet, row, col, v) ==
    [k \in DOMAIN cells \cup {<<sheet, row, col>>} |->
        IF k = <<sheet, row, col>> THEN v ELSE cells[k]]

InitWb ==
    [sheetnames |-> <<"Revenue", "Summary">>,
     cells |-> (<<"Revenue", 1, 1>> :> "Region") @@ (<<"Revenue", 1, 2>> :> "Sales")
            @@ (<<"Revenue", 2, 1>> :> "North") @@ (<<"Revenue", 2, 2>> :> "1000")
            @@ (<<"Summary", 1, 1>> :> "Total Sales")
            @@ (<<"Summary", 1, 2>> :> "=SUM(Revenue!B2:B2)"),
     tables |-> ("Sales" :> [sheet |-> "Revenue",
                             ref |-> [min_row |-> 1, min_col |-> 1, max_row |-> 2, max_col |-> 2],
                             tableColumns |-> <<"Region", "Sales">>])]

NoTable == [sheet |-> None, ref |-> [min_row |-> 0, min_col |-> 0, max_row |-> 0, max_col |-> 0],
            tableColumns |-> <<>>]

\* WorkbookContext.find_table: the table of that display name on one of the
\* workbook's sheets, or NoTable for the result None
find_table(wb, table_name) ==
    IF table_name \in DOMAIN wb.tables
       /\ wb.tables[table_name].sheet \in Range(wb.sheetnames)
    THEN wb.tables[table_name] ELSE NoTable

\* names of the header-row cells of a table (the fallback of table_add_column)
HeaderNames(wb, tbl) ==
    { Casefold[CellValue(wb, tbl.sheet, tbl.ref.min_row, c)] :
        c \in { d \in tbl.ref.min_col..tbl.ref.max_col :
                  CellValue(wb, tbl.sheet, tbl.ref.min_row, d) \in DOMAIN Casefold } }

ExistingNames(wb, tbl) ==
    LET declared == { Casefold[n] : n \in Range(tbl.tableColumns) }
    IN IF declared = {} THEN HeaderNames(wb, tbl) ELSE declared

NoChange == [type |-> None, target |-> None]
Raised(wb, exc) == [ok |-> FALSE, wb |-> wb, exc |-> exc, change |-> NoChange]
Returned(wb, change) == [ok |-> TRUE, wb |-> wb, exc |-> None, change |-> change]

\* table_add_column(ctx, table_name, column_name, formula=, default_value=)
table_add_column(wb, table_name, column_name, formula, default_value) ==
    LET tbl == find_table(wb, table_name) IN
    IF tbl = NoTable THEN Raised(wb, "ValueError: Table not found")
    ELSE IF Casefold[column_name] \in ExistingNames(wb, tbl)
    THEN Raised(wb, "ValueError: Column already exists")
    ELSE
      LET r == tbl.ref
          new_col_idx == r.max_col + 1
          fill == IF formula # None THEN formula ELSE default_value
          dataKeys == { <<tbl.sheet, row, new_col_idx>> : row \in (r.min_row + 1)..r.max_row }
          hdr == <<tbl.sheet, r.min_row, new_col_idx>>
          cells1 == [k \in DOMAIN wb.cells \cup {hdr} \cup (IF fill = None THEN {} ELSE dataKeys) |->
                       IF k = hdr THEN column_name
                       ELSE IF k \in dataKeys /\ fill # None THEN fill
                       ELSE wb.cells[k]]
          tbl1 == [tbl EXCEPT !.ref.max_col = new_col_idx,
                              !.tableColumns = Append(@, column_name)]
      IN Returned([wb EXCEPT !.cells = cells1, !.tables[table_name] = tbl1],
                  [type |-> "table.add_column", target |-> table_name])

\* ws.cell(row=, column=, value=): a value of None leaves the cell as it is
WriteCell(cells, sheet, row, col, v) ==
    IF v = None THEN cells ELSE AssignCell(cells, sheet, row, col, v)

\* row_data.get(key): a row is a function from its keys to its values
RowGet(row_data, key) == IF key \in DOMAIN row_data THEN row_data[key] ELSE None

\* {k.casefold(): v for k, v in row_data.items()}.get(key)
RowLowerGet(row_data, key) ==
    IF \E k \in DOMAIN row_data : Casefold[k] = key
    THEN row_data[CHOOSE k \in DOMAIN row_data : Casefold[k] = key]
    ELSE None

\* the columns whose cell in the first data row holds a formula
FormulaCols(wb, tbl) ==
    IF tbl.ref.min_row + 1 <= tbl.ref.max_row
    THEN { i \in 1..Len(tbl.tableColumns) :
             IsFormula(CellValue(wb, tbl.sheet, tbl.ref.min_row + 1, tbl.ref.min_col + i - 1)) }
    ELSE {}

\* the schema check of one row: the exception it raises, or None
RowSchemaError(tbl, formula_cols, row_data, schema_mode) ==
    LET col_names == Range(tbl.tableColumns)
        extra == DOMAIN row_data \ col_names
        missing == { tbl.tableColumns[i] : i \in (1..Len(tbl.tableColumns)) \ formula_cols }
                     \ DOMAIN row_data
    IN IF schema_mode = "strict"
       THEN IF extra # {} THEN "ValueError: Extra columns not in table schema"
            ELSE IF missing # {} THEN "ValueError: Missing columns in row data"
            ELSE None
       ELSE IF schema_mode = "allow-missing-null"
       THEN IF extra # {} THEN "ValueError: Extra columns not in table schema" ELSE None
       ELSE IF schema_mode = "map-by-header" THEN None
       ELSE "ValueError: Unknown schema_mode"

\* the cells after one row is written into sheet row max_row
WriteRow(wb, tbl, formula_cols, row_data, schema_mode, max_row) ==
    LET RECURSIVE cols(_, _)
        cols(cells, i) ==
          IF i > Len(tbl.tableColumns) THEN cells
          ELSE LET col_name == tbl.tableColumns[i]
                   col_idx == tbl.ref.min_col + i - 1
                   given == IF schema_mode = "map-by-header"
                            THEN \E k \in DOMAIN row_data : Casefold[k] = Casefold[col_name]
                            ELSE col_name \in DOMAIN row_data
                   val == IF i \in formula_cols /\ ~given
                          THEN CellValue(wb, tbl.sheet, tbl.ref.min_row + 1, col_idx)
                          ELSE IF schema_mode = "map-by-header"
                          THEN RowLowerGet(row_data, Casefold[col_name])
                          ELSE RowGet(row_data, col_name)
               IN cols(WriteCell(cells, tbl.sheet, max_row, col_idx, val), i + 1)
    IN cols(wb.cells, 1)

\* table_append_rows(ctx, table_name, rows, schema_mode=): each row is
\* checked and then written before the next row is looked at; the table
\* ref is set after the last row
table_append_rows(wb, table_name, rows, schema_mode) ==
    LET tbl == find_table(wb, table_name) IN
    IF tbl = NoTable THEN Raised(wb, "ValueError: Table not found")
    ELSE
      LET formula_cols == FormulaCols(wb, tbl)
          RECURSIVE loop(_, _, _)
          loop(w, i, max_row) ==
            IF i > Len(rows)
            THEN Returned([w EXCEPT !.tables[table_name].ref.max_row = max_row],
                          [type |-> "table.append_rows", target |-> table_name])
            ELSE LET exc == RowSchemaError(tbl, formula_cols, rows[i], schema_mode)
                 IN IF exc # None THEN Raised(w, exc)
                    ELSE loop([w EXCEPT !.cells = WriteRow(w, tbl, formula_cols, rows[i],
                                                           schema_mode, max_row + 1)],
                              i + 1, max_row + 1)
      IN loop(wb, 1, tbl.ref.max_row)

\* a parsed range, as _parse_ref returns it
Rect(min_row, min_col, max_row, max_col) ==
    [min_row |-> min_row, min_col |-> min_col, max_row |-> max_row, max_col |-> max_col]

\* "not (max_row < t_min_row or min_row > t_max_row or max_col < t_min_col
\* or min_col > t_max_col)"
Overlaps(r, t) ==
    ~(r.max_row < t.min_row \/ r.min_row > t.max_row
      \/ r.max_col < t.min_col \/ r.min_col > t.max_col)

\* _TABLE_NAME_RE.match(table_name), for the names the model uses
TableNameValid(table_name) == table_name \notin {"", "123bad"}

\* table_create(ctx, sheet_name, table_name, ref, columns=); columns is <<>>
\* for None
table_create(wb, sheet_name, table_name, rect, columns) ==
    IF ~TableNameValid(table_name) THEN Raised(wb, "ValueError: Invalid table name")
    ELSE IF find_table(wb, table_name) # NoTable
    THEN Raised(wb, "ValueError: Table already exists")
    ELSE IF sheet_name \notin Range(wb.sheetnames) THEN Raised(wb, "KeyError: Sheet not found")
    ELSE IF \E t \in DOMAIN wb.tables :
              wb.tables[t].sheet = sheet_name /\ Overlaps(rect, wb.tables[t].ref)
    THEN Raised(wb, "ValueError: Range overlaps existing table")
    ELSE
      LET cols == rect.min_col..rect.max_col
          header_row_empty == \A c \in cols : CellValue(wb, sheet_name, rect.min_row, c) = None
          existing_headers == [i \in 1..(rect.max_col - rect.min_col + 1) |->
                                 CellValue(wb, sheet_name, rect.min_row, rect.min_col + i - 1)]
          hdrKeys == { <<sheet_name, rect.min_row, rect.min_col + i - 1>> : i \in 1..Len(columns) }
          written == [k \in DOMAIN wb.cells \cup hdrKeys |->
                        IF k \in hdrKeys THEN columns[k[3] - rect.min_col + 1] ELSE wb.cells[k]]
          made(w, names) ==
              Returned([w EXCEPT !.tables =
                          [n \in DOMAIN w.tables \cup {table_name} |->
                             IF n = table_name
                             THEN [sheet |-> sheet_name, ref |-> rect, tableColumns |-> names]
                             ELSE w.tables[n]]],
                       [type |-> "table.create", target |-> table_name])
      IN IF columns # <<>> /\ header_row_empty
         THEN made([wb EXCEPT !.cells = written], columns)
         ELSE IF columns # <<>>
         THEN IF existing_headers # columns
              THEN Raised(wb, "ValueError: Header row values do not match provided columns")
              ELSE made(wb, columns)
         ELSE IF \E i \in 1..Len(existing_headers) : existing_headers[i] = None
         THEN Raised(wb, "ValueError: Header row has empty cell")
         ELSE made(wb, existing_headers)

\* table_delete_column(ctx, table_name, column_name): the column is looked up
\* by its exact name, the cells right of it move one column left, the name
\* leaves tableColumns, and the ref becomes one column narrower;
\* get_column_letter(max_col - 1) raises for index 0, after the cells and
\* tableColumns were changed
table_delete_column(wb, table_name, column_name) ==
    LET tbl == find_table(wb, table_name) IN
    IF tbl = NoTable THEN Raised(wb, "ValueError: Table not found")
    ELSE IF column_name \notin Range(tbl.tableColumns)
    THEN Raised(wb, "ValueError: Column not found")
    ELSE
      LET r == tbl.ref
          col_idx == CHOOSE i \in 1..Len(tbl.tableColumns) :
                       /\ tbl.tableColumns[i] = column_name
                       /\ \A j \in 1..(i - 1) : tbl.tableColumns[j] # column_name
          target_col == r.min_col + col_idx - 1
          moved == { <<tbl.sheet, row, col>> : row \in r.min_row..r.max_row,
                                               col \in target_col..r.max_col }
          after(k) == IF k \in moved
                      THEN (IF k[3] < r.max_col THEN CellValue(wb, k[1], k[2], k[3] + 1) ELSE None)
                      ELSE wb.cells[k]
          keys == { k \in DOMAIN wb.cells \cup moved : after(k) # None }
          cells1 == [k \in keys |-> after(k)]
          names == [i \in 1..(Len(tbl.tableColumns) - 1) |->
                      IF i < col_idx THEN tbl.tableColumns[i] ELSE tbl.tableColumns[i + 1]]
          shifted == [wb EXCEPT !.cells = cells1, !.tables[table_name].tableColumns = names]
      IN IF r.max_col - 1 < 1
         THEN Raised(shifted, "ValueError: Invalid column index")
         ELSE Returned([shifted EXCEPT !.tables[table_name].ref.max_col = r.max_col - 1],
                       [type |-> "table.delete_column", target |-> table_name])

\* a sheet_delete that removes the last sheet too
LastSheet_never(wb) == FALSE

\* "len(ctx.wb.sheetnames) <= 1"
LastSheet(wb) == Len(wb.sheetnames) <= 1

\* sheet_delete(ctx, sheet_name): ctx.wb.remove(ws) takes the worksheet with
\* its cells and its tables out of the workbook
sheet_delete(wb, sheet_name) ==
    IF sheet_name \notin Range(wb.sheetnames) THEN Raised(wb, "KeyError: Sheet not found")
    ELSE IF LastSheet(wb)
    THEN Raised(wb, "ValueError: workbook must retain at least one sheet")
    ELSE
      LET keep == { k \in DOMAIN wb.cells : k[1] # sheet_name }
          left == { t \in DOMAIN wb.tables : wb.tables[t].sheet # sheet_name }
      IN Returned([sheetnames |-> SelectSeq(wb.sheetnames, LAMBDA n : n # sheet_name),
                   cells |-> [k \in keep |-> wb.cells[k]],
                   tables |-> [t \in left |-> wb.tables[t]]],
                  [type |-> "sheet.delete", target |-> sheet_name])

\* sheet_rename(ctx, old_name, new_name): ws.title = new_name
sheet_rename(wb, old_name, new_name) ==
    IF old_name \notin Range(wb.sheetnames) THEN Raised(wb, "KeyError: Sheet not found")
    ELSE IF new_name \in Range(wb.sheetnames) THEN Raised(wb, "ValueError: Sheet already exists")
    ELSE
      LET to(n) == IF n = old_name THEN new_name ELSE n
          keys == { <<to(k[1]), k[2], k[3]>> : k \in DOMAIN wb.cells }
          from(k) == IF k[1] = new_name THEN <<old_name, k[2], k[3]>> ELSE k
      IN Returned([sheetnames |-> [i \in 1..Len(wb.sheetnames) |-> to(wb.sheetnames[i])],
                   cells |-> [k \in keys |-> wb.cells[from(k)]],
                   tables |-> [t \in DOMAIN wb.tables |->
                                 [wb.tables[t] EXCEPT !.sheet = to(@)]]],
                  [type |-> "sheet.rename", target |-> old_name])

\* cell_set(ctx, sheet_name, ref, value, force_overwrite_formulas=); ref is
\* [matches, row, col]: whether the pattern ([A-Z]+)(\d+) matches the text,
\* and the row and column it then denotes
cell_set(wb, sheet_name, ref, value, force_overwrite_formulas) ==
    IF sheet_name \notin Range(wb.sheetnames) THEN Raised(wb, "KeyError")
    ELSE IF ~ref.matches THEN Raised(wb, "ValueError")
    ELSE
      LET old_val == CellValue(wb, sheet_name, ref.row, ref.col) IN
      IF IsFormula(old_val) /\ ~force_overwrite_formulas /\ ~IsFormula(value)
      THEN Raised(wb, "ValueError: contains formula")
      ELSE Returned([wb EXCEPT !.cells = AssignCell(@, sheet_name, ref.row, ref.col, value)],
                    [type |-> "cell.set", target |-> sheet_name])

(***************************************************************************)
(* Patch plans.  An Operation carries every field by name; a field the     *)
(* operation does not use is None.                                         *)
(***************************************************************************)
Op(type, table, sheet, name, formula, value, ref, force) ==
    [type |-> type, table |-> table, sheet |-> sheet, name |-> name,
     formula |-> formula, value |-> value, ref |-> ref,
     force_overwrite_formulas |-> force]

NoRef == [matches |-> FALSE, row |-> 0, col |-> 0]
A1(row, col) == [matches |-> TRUE, row |-> row, col |-> col]

OpCatalog ==
    { Op("cell.set", None, "Revenue", None, None, "x", A1(2, 1), FALSE),
      Op("cell.set", None, "Summary", None, None, "x", A1(1, 2), FALSE),
      Op("table.add_column", "Sales", None, "Margin", "=[@Sales]*2", None, NoRef, FALSE),
      Op("table.add_column", "Sales", None, "SALES", None, None, NoRef, FALSE),
      Op("sheet.delete", None, "Summary", None, None, None, NoRef, FALSE) }

SeqsUpTo(S, n) == UNION { [1..k -> S] : k \in 0..n }

Precondition(type, sheet, table, column) ==
    [type |-> type, sheet |-> sheet, table |-> table, column |-> column,
     ref |-> [matches |-> FALSE, row |-> 0, col |-> 0]]

\* fingerprint(path): SHA-256 of the bytes, as an opaque equality token
fingerprint(content) == <<"sha256", content>>

\* the value None of an optional fingerprint
NoFingerprint == <<"None">>

\* a _check_precondition that passes every precondition
check_precondition_passing(wb, pre) == [type |-> pre.type, op_id |-> 0, passed |-> TRUE]

\* _check_precondition(ctx, pre)
check_precondition(wb, pre) ==
    IF pre.type = "sheet_exists" THEN
        [type |-> pre.type, op_id |-> 0,
         passed |-> IF pre.sheet # None THEN pre.sheet \in Range(wb.sheetnames) ELSE FALSE]
    ELSE IF pre.type = "table_exists" THEN
        [type |-> pre.type, op_id |-> 0,
         passed |-> IF pre.table # None THEN find_table(wb, pre.table) # NoTable ELSE FALSE]
    ELSE IF pre.type = "column_exists" THEN
        [type |-> pre.type, op_id |-> 0,
         passed |-> IF pre.table # None /\ find_table(wb, pre.table) # NoTable
                    THEN (IF pre.column # None
                          THEN pre.column \in Range(find_table(wb, pre.table).tableColumns)
                          ELSE FALSE)
                    ELSE FALSE]
    ELSE [type |-> pre.type, op_id |-> 0, passed |-> FALSE]

\* the per-operation part of validate_plan: the checks of operations i.. of
\* the plan, planned being planned_columns_by_table as a set of
\* <<table, casefolded name>> pairs
RECURSIVE ValidateOps(_, _, _, _)
ValidateOps(wb, ops, i, planned) ==
    IF i > Len(ops) THEN <<>>
    ELSE
      LET op == ops[i] IN
      IF op.type = "table.add_column" THEN
          IF op.table = None THEN ValidateOps(wb, ops, i + 1, planned)
          ELSE IF find_table(wb, op.table) = NoTable THEN
              << [type |-> "operation_valid", op_id |-> i, passed |-> FALSE] >>
              \o ValidateOps(wb, ops, i + 1, planned)
          ELSE
              LET col_names == ExistingNames(wb, find_table(wb, op.table))
                  new_name == IF op.name = None THEN "" ELSE Casefold[op.name]
              IN IF new_name \in col_names \/ <<op.table, new_name>> \in planned
                 THEN << [type |-> "operation_valid", op_id |-> i, passed |-> FALSE] >>
                      \o ValidateOps(wb, ops, i + 1, planned)
                 ELSE << [type |-> "operation_valid", op_id |-> i, passed |-> TRUE] >>
                      \o ValidateOps(wb, ops, i + 1, planned \cup {<<op.table, new_name>>})
      ELSE IF op.type = "table.append_rows" THEN
          IF op.table = None THEN ValidateOps(wb, ops, i + 1, planned)
          ELSE << [type |-> "operation_valid", op_id |-> i,
                   passed |-> find_table(wb, op.table) # NoTable] >>
               \o ValidateOps(wb, ops, i + 1, planned)
      ELSE IF op.type = "table.create" THEN
          << [type |-> "operation_valid", op_id |-> i,
              passed |->
                IF op.sheet # None /\ op.sheet \notin Range(wb.sheetnames) THEN FALSE
                ELSE IF op.table # None /\ find_table(wb, op.table) # NoTable THEN FALSE
                ELSE IF op.sheet # None
                THEN ~\E t \in DOMAIN wb.tables :
                          wb.tables[t].sheet = op.sheet /\ Overlaps(op.rect, wb.tables[t].ref)
                ELSE TRUE] >>
          \o ValidateOps(wb, ops, i + 1, planned)
      ELSE
          << [type |-> "operation_valid", op_id |-> i, passed |-> TRUE] >>
          \o ValidateOps(wb, ops, i + 1, planned)

\* validate_plan(ctx, plan): ctx is [fp, wb]
validate_plan(ctx, plan) ==
    LET fpChecks ==
            IF plan.target.fingerprint # NoFingerprint /\ plan.options.fail_on_external_change
            THEN << [type |-> "fingerprint_match", op_id |-> 0,
                     passed |-> plan.target.fingerprint = ctx.fp] >>
            ELSE <<>>
        preChecks == [k \in 1..Len(plan.preconditions) |->
                        check_precondition(ctx.wb, plan.preconditions[k])]
        checks == fpChecks \o preChecks \o ValidateOps(ctx.wb, plan.operations, 1, {})
    IN [valid |-> \A k \in 1..Len(checks) : checks[k].passed, checks |-> checks]

(***************************************************************************)
(* Files.  The bytes of a workbook file are the serialized object model    *)
(* with the modification time the writer stamps into it; torn marks a      *)
(* file that holds only a part of those bytes.                             *)
(***************************************************************************)
Serialize(wb, now) == [wb |-> wb, modified |-> now, torn |-> FALSE]

Torn(content) == [content EXCEPT !.torn = TRUE]

InitContent == Serialize(InitWb, 0)

\* backup_path = None
NoBackup == <<>>

\* f"{path.stem}.{ts}.bak{path.suffix}" for the workbook path
BackupName(ts) == <<"book", ts, "bak", "xlsx">>

Book == "book.xlsx"
Nonexistent == "nonexistent_file.xlsx"

NoPlan ==
    [valid |-> FALSE,
     target |-> [fingerprint |-> NoFingerprint],
     options |-> [fail_on_external_change |-> TRUE],
     preconditions |-> <<>>, operations |-> <<>>]

\* the plan file named by --append or --out does not exist
NoPlanFile == [exists |-> FALSE]

\* WorkflowSpec: target is target.get("file", ""), defaults the WorkflowDefaults
NoWorkflow ==
    [target |-> None, defaults |-> [dry_run |-> FALSE, stop_on_error |-> FALSE], steps |-> <<>>]

NoCtx == [fp |-> NoFingerprint, wb |-> [sheetnames |-> <<>>, cells |-> <<>>, tables |-> <<>>]]

DefaultArgs ==
    [file |-> Book, plan |-> NoPlan, dry_run |-> FALSE, backup |-> FALSE,
     sheet |-> None, ref |-> NoRef, has_sheet |-> FALSE, value |-> None,
     force_overwrite_formulas |-> FALSE, timeout |-> 0, body_raises |-> FALSE,
     table |-> None, name |-> None, formula |-> None, default_value |-> None,
     data |-> "absent", rows |-> <<>>, schema_mode |-> "strict",
     workflow |-> NoWorkflow, row_delta |-> 0, col_delta |-> 0,
     plans |-> <<>>, out |-> FALSE, new_name |-> None]

VARIABLES
    platform,     \* "posix" or "win32": the operating system of the run
    clock,        \* wall clock, in seconds
    disk,         \* bytes of the workbook file Book
    backups,      \* backup file name -> bytes, for the backup files that exist
    tmp,          \* process -> bytes of its .xl_tmp_ file, for the files that exist
    lock_exists,  \* the sidecar <workbook>.xl.lock exists
    lock_owner,   \* process holding the OS lock on the sidecar, or NoProc
    lock_pid,     \* pid= line of the sidecar
    pc,           \* process -> position in its handler
    kind,         \* process -> command it runs
    args,         \* process -> arguments of the invocation
    ctx,          \* process -> its WorkbookContext, [fp, wb]
    fp_before,    \* process -> apply_cmd's fp_before
    fp_after,     \* process -> apply_cmd's fp_after
    backup_path,  \* process -> backup_path of the handler
    changes,      \* process -> ChangeRecords collected so far
    op_i,         \* process -> number of plan operations invoked so far
    deadline,     \* process -> deadline of a waiting WorkbookLock.__enter__
    results,      \* process -> step results of execute_workflow, in the order appended
    mutated,      \* process -> the flag "mutated" of execute_workflow
    stdout,       \* process -> envelopes written to stdout
    exits,        \* process -> exit codes returned to the process manager
    plan_out     \* the plan file written with --out, or NoPlanFile

shared == <<platform, clock, disk, backups, tmp, lock_exists, lock_owner, lock_pid>>
locals == <<ctx, fp_before, fp_after, backup_path, changes, op_i, deadline, results, mutated>>
outs == <<stdout, exits, plan_out>>
vars == <<shared, pc, kind, args, locals, outs>>

(***************************************************************************)
(* Inputs of an invocation.                                                *)
(***************************************************************************)
Kinds == {"apply", "cell.set", "wb.inspect", "holder"}

Plan(f, x, pre, ops) ==
    [valid |-> TRUE,
     target |-> [fingerprint |-> f],
     options |-> [fail_on_external_change |-> x],
     preconditions |-> pre, operations |-> ops]

\* Plans of up to MaxOps operations without a target fingerprint, and plans of
\* at most one operation that carry the fingerprint the planner took of the
\* initial file, or a precondition on a table the workbook does not have.
Plans ==
    { Plan(NoFingerprint, TRUE, <<>>, ops) : ops \in SeqsUpTo(OpCatalog, MaxOps) }
    \cup { Plan(fingerprint(InitContent), x, <<>>, ops) :
             x \in BOOLEAN, ops \in SeqsUpTo(OpCatalog, 1) }
    \cup { Plan(NoFingerprint, TRUE, << Precondition("table_exists", None, "Nope", None) >>, ops) :
             ops \in SeqsUpTo(OpCatalog, 1) }

\* --dry-run and --backup as given on the command line
SaveFlags ==
    { [dry_run |-> FALSE, backup |-> FALSE], [dry_run |-> FALSE, backup |-> TRUE],
      [dry_run |-> TRUE, backup |-> TRUE] }

ApplyArgs ==
    { [DefaultArgs EXCEPT !.plan = pl, !.dry_run = sf.dry_run, !.backup = sf.backup] :
        pl \in Plans, sf \in SaveFlags }
    \cup { DefaultArgs, [DefaultArgs EXCEPT !.file = Nonexistent] }

CellSetTargets ==
    { [has_sheet |-> TRUE, sheet |-> "Revenue", ref |-> A1(2, 1), force |-> FALSE],
      [has_sheet |-> TRUE, sheet |-> "Summary", ref |-> A1(1, 2), force |-> FALSE],
      [has_sheet |-> TRUE, sheet |-> "Summary", ref |-> A1(1, 2), force |-> TRUE],
      [has_sheet |-> TRUE, sheet |-> "Nope", ref |-> A1(1, 1), force |-> FALSE],
      [has_sheet |-> TRUE, sheet |-> "Revenue", ref |-> NoRef, force |-> FALSE],
      [has_sheet |-> FALSE, sheet |-> None, ref |-> A1(1, 1), force |-> FALSE] }

CellSet(t, v, sf) ==
    [DefaultArgs EXCEPT !.has_sheet = t.has_sheet, !.sheet = t.sheet, !.ref = t.ref,
                        !.value = v, !.force_overwrite_formulas = t.force,
                        !.dry_run = sf.dry_run, !.backup = sf.backup]

CellSetArgs ==
    { CellSet(t, "y", sf) : t \in CellSetTargets, sf \in SaveFlags }
    \cup { CellSet([has_sheet |-> TRUE, sheet |-> "Summary", ref |-> A1(1, 2), force |-> FALSE],
                   "=[@Sales]*2", sf) : sf \in SaveFlags }
    \cup { [DefaultArgs EXCEPT !.file = Nonexistent, !.has_sheet = TRUE,
                               !.sheet = "Revenue", !.ref = A1(2, 1), !.value = "y"] }

InspectArgs == { DefaultArgs, [DefaultArgs EXCEPT !.file = Nonexistent] }

HolderArgs ==
    { [DefaultArgs EXCEPT !.timeout = t, !.body_raises = r] :
        t \in {0, 1}, r \in BOOLEAN }

\* Process Main runs any command; the other process is the concurrent
\* activity around it: a plain cell set, an inspect, or a lock holder.
Main == "p1"

ArgsOf(p, k) ==
    IF k = "apply" THEN (IF p = Main THEN ApplyArgs ELSE {})
    ELSE IF k = "cell.set"
    THEN (IF p = Main THEN CellSetArgs
          ELSE { CellSet([has_sheet |-> TRUE, sheet |-> "Revenue", ref |-> A1(2, 1),
                          force |-> FALSE], "z", sf) :
                     sf \in {[dry_run |-> FALSE, backup |-> FALSE],
                             [dry_run |-> FALSE, backup |-> TRUE]} })
    ELSE IF k = "wb.inspect" THEN (IF p = Main THEN InspectArgs ELSE {DefaultArgs})
    ELSE HolderArgs

(***************************************************************************)
(* Initial state: the workbook exists, nothing runs.                       *)
(***************************************************************************)
Init ==
    /\ platform \in {"posix", "win32"}
    /\ clock = 0
    /\ disk = InitContent
    /\ backups = <<>>
    /\ tmp = <<>>
    /\ lock_exists = FALSE
    /\ lock_owner = NoProc
    /\ lock_pid = NoProc
    /\ pc = [p \in Procs |-> "idle"]
    /\ kind = [p \in Procs |-> None]
    /\ args = [p \in Procs |-> DefaultArgs]
    /\ ctx = [p \in Procs |-> NoCtx]
    /\ fp_before = [p \in Procs |-> NoFingerprint]
    /\ fp_after = [p \in Procs |-> NoFingerprint]
    /\ backup_path = [p \in Procs |-> NoBackup]
    /\ changes = [p \in Procs |-> <<>>]
    /\ op_i = [p \in Procs |-> 0]
    /\ deadline = [p \in Procs |-> 0]
    /\ results = [p \in Procs |-> <<>>]
    /\ mutated = [p \in Procs |-> FALSE]
    /\ stdout = [p \in Procs |-> <<>>]
    /\ exits = [p \in Procs |-> <<>>]
    /\ plan_out = NoPlanFile

\* the process is started with a command line
Start(p) ==
    /\ pc[p] = "idle"
    /\ \E k \in Kinds : \E a \in ArgsOf(p, k) :
         /\ kind' = [kind EXCEPT ![p] = k]
         /\ args' = [args EXCEPT ![p] = a]
    /\ pc' = [pc EXCEPT ![p] = "begin"]
    /\ UNCHANGED <<shared, locals, outs>>

\* the wall clock advances
Tick ==
    /\ clock < MaxClock
    /\ clock' = clock + 1
    /\ UNCHANGED <<platform, disk, backups, tmp, lock_exists, lock_owner, lock_pid,
                   pc, kind, args, locals, outs>>

(***************************************************************************)
(* Output.  _emit prints the envelope and raises typer.Exit with the exit  *)
(* code, which ends the process; main wraps any other exception into an    *)
(* ERR_INTERNAL envelope and exits with 90.                                *)
(***************************************************************************)
\* a print_response that writes the envelope twice
print_response_twice(out, env) == Append(Append(out, env), env)

print_response(out, env) == Append(out, env)

emit(p, env) ==
    /\ stdout' = [stdout EXCEPT ![p] = print_response(@, env)]
    /\ exits' = [exits EXCEPT ![p] = Append(@, exit_code_for(env))]
    /\ pc' = [pc EXCEPT ![p] = "done"]
    /\ UNCHANGED plan_out

main_except(p) ==
    /\ stdout' = [stdout EXCEPT ![p] = print_response(@, error_envelope("unknown", "ERR_INTERNAL", None))]
    /\ exits' = [exits EXCEPT ![p] = Append(@, EXIT_CODES.internal)]
    /\ pc' = [pc EXCEPT ![p] = "done"]
    /\ UNCHANGED plan_out

(***************************************************************************)
(* Loading the workbook: WorkbookContext.__init__ reads the file twice,    *)
(* once for the fingerprint and once to parse it.                          *)
(***************************************************************************)
Cli(p) ==
    kind[p] \in {"apply", "cell.set", "wb.inspect", "table.add_column", "table.append_rows",
                 "run", "validate.plan", "sheet.create", "sheet.delete", "sheet.rename"}

\* portalocker.lock(f, LOCK_EX | LOCK_NB) succeeds iff nobody holds the lock
CanLock(owner) == owner = NoProc

\* handlers that take the sidecar lock around their work
AcquiresLock_always(k) == TRUE

\* the handlers of cli.py load the workbook through _load_ctx_or_emit (run
\* through WorkbookContext) and none of them enters a WorkbookLock
AcquiresLock(k) == FALSE

\* the workbook path of the invocation; for run it is
\* file or workflow.target.get("file", "")
WorkbookPath(p) ==
    IF kind[p] = "run" /\ args[p].file = None THEN args[p].workflow.target ELSE args[p].file

\* the code of the envelope when loading the workbook raises: run_cmd wraps
\* every exception of execute_workflow into ERR_WORKFLOW_FAILED
LoadErrorCode(k, code) == IF k = "run" THEN "ERR_WORKFLOW_FAILED" ELSE code

\* _load_patch_plan / the ref check of cell_set_cmd, then the first half of
\* _load_ctx_or_emit: the path must exist, ctx.fp = fingerprint(path)
LoadFingerprint(p) ==
    /\ pc[p] = "begin"
    /\ Cli(p)
    /\ IF kind[p] \in {"apply", "validate.plan"} /\ ~args[p].plan.valid
       THEN /\ emit(p, error_envelope(kind[p], "ERR_PLAN_INVALID", None))
            /\ UNCHANGED ctx
       ELSE IF kind[p] = "cell.set" /\ ~args[p].has_sheet
       THEN /\ emit(p, error_envelope("cell.set", "ERR_RANGE_INVALID", None))
            /\ UNCHANGED ctx
       ELSE IF kind[p] = "table.append_rows" /\ args[p].data = "malformed"
       THEN /\ emit(p, error_envelope("table.append_rows", "ERR_INVALID_ARGUMENT", None))
            /\ UNCHANGED ctx
       ELSE IF kind[p] = "table.append_rows" /\ args[p].data = "absent"
       THEN /\ emit(p, error_envelope("table.append_rows", "ERR_MISSING_DATA", None))
            /\ UNCHANGED ctx
       ELSE IF kind[p] = "run" /\ Len(args[p].workflow.steps) = 0
       THEN /\ emit(p, error_envelope("run", "ERR_WORKFLOW_INVALID", None))
            /\ UNCHANGED ctx
       ELSE IF kind[p] = "run" /\ WorkbookPath(p) = None
       THEN /\ emit(p, error_envelope("run", "ERR_MISSING_PARAM", None))
            /\ UNCHANGED ctx
       ELSE IF AcquiresLock(kind[p]) /\ ~CanLock(lock_owner)
       THEN /\ emit(p, error_envelope(kind[p], "ERR_LOCK_HELD", None))
            /\ UNCHANGED ctx
       ELSE IF WorkbookPath(p) # Book
       THEN /\ emit(p, error_envelope(kind[p],
                                      LoadErrorCode(kind[p], "ERR_WORKBOOK_NOT_FOUND"), None))
            /\ UNCHANGED ctx
       ELSE /\ ctx' = [ctx EXCEPT ![p].fp = fingerprint(disk)]
            /\ pc' = [pc EXCEPT ![p] = "load_wb"]
            /\ UNCHANGED outs
    /\ UNCHANGED <<shared, kind, args, fp_before, fp_after, backup_path, changes, op_i, deadline, results, mutated>>

AfterLoad(k) ==
    IF k = "apply" THEN "validate"
    ELSE IF k \in {"cell.set", "table.add_column", "table.append_rows",
                    "sheet.create", "sheet.delete", "sheet.rename"} THEN "op"
    ELSE IF k = "run" THEN "step"
    ELSE IF k = "validate.plan" THEN "validate_plan"
    ELSE "emit"

\* the second half: openpyxl.load_workbook(path), WorkbookCorruptError when
\* the bytes are not a complete workbook
LoadWorkbook(p) ==
    /\ pc[p] = "load_wb"
    /\ IF disk.torn
       THEN /\ emit(p, error_envelope(kind[p],
                                      LoadErrorCode(kind[p], "ERR_WORKBOOK_CORRUPT"), None))
            /\ UNCHANGED ctx
       ELSE /\ ctx' = [ctx EXCEPT ![p].wb = disk.wb]
            /\ pc' = [pc EXCEPT ![p] = AfterLoad(kind[p])]
            /\ UNCHANGED outs
    /\ UNCHANGED <<shared, kind, args, fp_before, fp_after, backup_path, changes, op_i, deadline, results, mutated>>

(***************************************************************************)
(* apply_cmd                                                               *)
(***************************************************************************)
\* a Save block without the "if not dry_run" guard
AfterOps_unguarded(a) ==
    IF a.backup THEN "backup" ELSE "save"

\* the "Save" block of a mutating handler: what follows the operations
AfterOps(a) ==
    IF a.dry_run THEN "emit" ELSE IF a.backup THEN "backup" ELSE "save"

\* an apply_cmd without the fingerprint conflict check
FingerprintConflict_unchecked(plan, fp) == FALSE

\* the fingerprint conflict check of apply_cmd
FingerprintConflict(plan, fp) ==
    /\ plan.target.fingerprint # NoFingerprint
    /\ plan.options.fail_on_external_change
    /\ plan.target.fingerprint # fp

\* an apply_cmd that goes on whatever validate_plan returns
Refused_never(val_result) == FALSE

\* "if not val_result.valid": apply refuses a plan with a failed check
Refused(val_result) == ~val_result.valid

\* fp_before = ctx.fp, the fingerprint conflict check and validate_plan
ApplyValidate(p) ==
    /\ pc[p] = "validate"
    /\ fp_before' = [fp_before EXCEPT ![p] = ctx[p].fp]
    /\ LET plan == args[p].plan
           val_result == validate_plan(ctx[p], plan)
       IN IF FingerprintConflict(plan, ctx[p].fp)
          THEN emit(p, error_envelope("apply", "ERR_PLAN_FINGERPRINT_CONFLICT",
                                      [expected |-> plan.target.fingerprint, actual |-> ctx[p].fp]))
          ELSE IF Refused(val_result)
          THEN emit(p, error_envelope("apply", "ERR_VALIDATION_FAILED",
                                      [checks |-> val_result.checks]))
          ELSE /\ pc' = [pc EXCEPT ![p] = IF Len(plan.operations) = 0
                                          THEN AfterOps(args[p]) ELSE "ops"]
               /\ UNCHANGED outs
    /\ UNCHANGED <<shared, kind, args, ctx, fp_after, backup_path, changes, op_i, deadline, results, mutated>>

\* one iteration of "for op in plan.operations": the dispatch on op.type
apply_op(wb, op) ==
    IF op.type = "table.add_column"
    THEN table_add_column(wb, op.table, op.name, op.formula, op.value)
    ELSE IF op.type = "table.append_rows"
    THEN table_append_rows(wb, op.table, op.rows, op.schema_mode)
    ELSE IF op.type = "cell.set"
    THEN cell_set(wb, op.sheet, op.ref, op.value, op.force_overwrite_formulas)
    ELSE IF op.type = "table.create"
    THEN table_create(wb, op.sheet, op.table, op.rect, op.columns)
    ELSE Returned(wb, [type |-> op.type, target |-> "skipped"])

\* a loop that swallows the exception of an operation and goes on
ContinueAfter_swallowing(r) == TRUE

\* the loop goes on after a ChangeRecord was appended, and stops on an exception
ContinueAfter(r) == r.ok

ApplyOp(p) ==
    /\ pc[p] = "ops"
    /\ LET ops == args[p].plan.operations
           r == apply_op(ctx[p].wb, ops[op_i[p] + 1])
       IN /\ op_i' = [op_i EXCEPT ![p] = @ + 1]
          /\ ctx' = [ctx EXCEPT ![p].wb = r.wb]
          /\ IF ContinueAfter(r)
             THEN /\ changes' = [changes EXCEPT ![p] = Append(@, r.change)]
                  /\ pc' = [pc EXCEPT ![p] = IF op_i[p] + 1 = Len(ops)
                                             THEN AfterOps(args[p]) ELSE "ops"]
                  /\ UNCHANGED outs
             ELSE /\ emit(p, error_envelope("apply", "ERR_OPERATION_FAILED", None))
                  /\ UNCHANGED changes
    /\ UNCHANGED <<shared, kind, args, fp_before, fp_after, backup_path, deadline, results, mutated>>

(***************************************************************************)
(* cell_set_cmd                                                            *)
(***************************************************************************)
\* "ERR_FORMULA_OVERWRITE_BLOCKED" if "formula" in str(e).lower() else "ERR_RANGE_INVALID"
CellSetErrorCode(exc) ==
    IF exc = "ValueError: contains formula" THEN "ERR_FORMULA_OVERWRITE_BLOCKED"
    ELSE "ERR_RANGE_INVALID"

CellSetOp(p) ==
    /\ pc[p] = "op"
    /\ kind[p] = "cell.set"
    /\ LET a == args[p]
           r == cell_set(ctx[p].wb, a.sheet, a.ref, a.value, a.force_overwrite_formulas)
       IN /\ ctx' = [ctx EXCEPT ![p].wb = r.wb]
          /\ IF r.ok
             THEN /\ changes' = [changes EXCEPT ![p] = <<r.change>>]
                  /\ pc' = [pc EXCEPT ![p] = AfterOps(a)]
                  /\ UNCHANGED outs
             ELSE /\ emit(p, error_envelope("cell.set", CellSetErrorCode(r.exc), None))
                  /\ UNCHANGED changes
    /\ UNCHANGED <<shared, kind, args, fp_before, fp_after, backup_path, op_i, deadline, results, mutated>>

(***************************************************************************)
(* table_add_column_cmd and table_append_rows_cmd                          *)
(***************************************************************************)
\* "ERR_COLUMN_EXISTS" if "already exists" in str(e).lower() else "ERR_TABLE_NOT_FOUND"
TableAddColumnErrorCode(exc) ==
    IF exc = "ValueError: Column already exists" THEN "ERR_COLUMN_EXISTS"
    ELSE "ERR_TABLE_NOT_FOUND"

TableAddColumnOp(p) ==
    /\ pc[p] = "op"
    /\ kind[p] = "table.add_column"
    /\ LET a == args[p]
           r == table_add_column(ctx[p].wb, a.table, a.name, a.formula, a.default_value)
       IN /\ ctx' = [ctx EXCEPT ![p].wb = r.wb]
          /\ IF r.ok
             THEN /\ changes' = [changes EXCEPT ![p] = <<r.change>>]
                  /\ pc' = [pc EXCEPT ![p] = AfterOps(a)]
                  /\ UNCHANGED outs
             ELSE /\ emit(p, error_envelope("table.add_column",
                                            TableAddColumnErrorCode(r.exc), None))
                  /\ UNCHANGED changes
    /\ UNCHANGED <<shared, kind, args, fp_before, fp_after, backup_path, op_i, deadline, results, mutated>>

\* "ERR_SCHEMA_MISMATCH" if "columns" in str(e).lower() else "ERR_TABLE_NOT_FOUND"
TableAppendRowsErrorCode(exc) ==
    IF exc \in {"ValueError: Extra columns not in table schema",
                "ValueError: Missing columns in row data"}
    THEN "ERR_SCHEMA_MISMATCH"
    ELSE "ERR_TABLE_NOT_FOUND"

TableAppendRowsOp(p) ==
    /\ pc[p] = "op"
    /\ kind[p] = "table.append_rows"
    /\ LET a == args[p]
           r == table_append_rows(ctx[p].wb, a.table, a.rows, a.schema_mode)
       IN /\ ctx' = [ctx EXCEPT ![p].wb = r.wb]
          /\ IF r.ok
             THEN /\ changes' = [changes EXCEPT ![p] = <<r.change>>]
                  /\ pc' = [pc EXCEPT ![p] = AfterOps(a)]
                  /\ UNCHANGED outs
             ELSE /\ emit(p, error_envelope("table.append_rows",
                                            TableAppendRowsErrorCode(r.exc), None))
                  /\ UNCHANGED changes
    /\ UNCHANGED <<shared, kind, args, fp_before, fp_after, backup_path, op_i, deadline, results, mutated>>

(***************************************************************************)
(* Saving: backup(path), then WorkbookContext.save(path), which            *)
(* serializes the model and hands the bytes to atomic_write.               *)
(***************************************************************************)
Without(f, x) == [y \in DOMAIN f \ {x} |-> f[y]]

With(f, x, v) == [y \in DOMAIN f \cup {x} |-> IF y = x THEN v ELSE f[y]]

\* backup(path): copy the file to <stem>.<UTC timestamp>.bak<suffix>; the
\* result is the directory's backup files after the call
backup(bks, now, content) == With(bks, BackupName(now), content)

Backup(p) ==
    /\ pc[p] = "backup"
    /\ backups' = backup(backups, clock, disk)
    /\ backup_path' = [backup_path EXCEPT ![p] = BackupName(clock)]
    /\ pc' = [pc EXCEPT ![p] = "save"]
    /\ UNCHANGED <<platform, clock, disk, tmp, lock_exists, lock_owner, lock_pid,
                   kind, args, ctx, fp_before, fp_after, changes, op_i, deadline, results, mutated, outs>>

\* an exception of ctx.save reaches main, except in run, where run_cmd
\* catches it around execute_workflow
save_raises(p) ==
    IF kind[p] = "run"
    THEN emit(p, error_envelope("run", "ERR_WORKFLOW_FAILED", None))
    ELSE main_except(p)

\* ctx.save: wb.save(buf); atomic_write: mkstemp, write, flush, fsync.
\* When a step raises, the temporary file is unlinked and the exception
\* reaches main.
WriteTmp(p) ==
    /\ pc[p] = "save"
    /\ \/ /\ tmp' = With(tmp, p, Serialize(ctx[p].wb, clock))
          /\ pc' = [pc EXCEPT ![p] = "move"]
          /\ UNCHANGED outs
       \/ /\ save_raises(p)
          /\ UNCHANGED tmp
    /\ UNCHANGED <<platform, clock, disk, backups, lock_exists, lock_owner, lock_pid,
                   kind, args, locals>>

AfterSave(k) == IF k = "apply" THEN "fp_after" ELSE "emit"

\* os.rename(tmp_path, target) replaces an existing target on POSIX and
\* raises FileExistsError on Windows
RenameReplaces(os) == os = "posix"

\* atomic_write: shutil.move(tmp_path, target).  It renames; when the rename
\* raises OSError it copies the bytes over the target (open for writing
\* truncates it) and unlinks the source afterwards.
Move(p) ==
    /\ pc[p] = "move"
    /\ \/ /\ RenameReplaces(platform)
          /\ disk' = tmp[p]
          /\ tmp' = Without(tmp, p)
          /\ pc' = [pc EXCEPT ![p] = AfterSave(kind[p])]
          /\ UNCHANGED outs
       \/ /\ ~RenameReplaces(platform)
          /\ disk' = Torn(tmp[p])
          /\ pc' = [pc EXCEPT ![p] = "copy"]
          /\ UNCHANGED <<tmp, outs>>
       \/ /\ tmp' = Without(tmp, p)
          /\ save_raises(p)
          /\ UNCHANGED disk
    /\ UNCHANGED <<platform, clock, backups, lock_exists, lock_owner, lock_pid,
                   kind, args, locals>>

\* the copy of shutil.move completes and the source is unlinked, or it
\* raises part way and atomic_write unlinks the temporary file
CopyFinish(p) ==
    /\ pc[p] = "copy"
    /\ tmp' = Without(tmp, p)
    /\ \/ /\ disk' = tmp[p]
          /\ pc' = [pc EXCEPT ![p] = AfterSave(kind[p])]
          /\ UNCHANGED outs
       \/ /\ save_raises(p)
          /\ UNCHANGED disk
    /\ UNCHANGED <<platform, clock, backups, lock_exists, lock_owner, lock_pid,
                   kind, args, locals>>

\* fp_after = fingerprint(file)
FpAfter(p) ==
    /\ pc[p] = "fp_after"
    /\ fp_after' = [fp_after EXCEPT ![p] = fingerprint(disk)]
    /\ pc' = [pc EXCEPT ![p] = "emit"]
    /\ UNCHANGED <<shared, kind, args, ctx, fp_before, backup_path, changes, op_i, deadline, results, mutated, outs>>

ResultOf(p) ==
    IF kind[p] = "apply" THEN
        [applied |-> ~args[p].dry_run, dry_run |-> args[p].dry_run,
         backup_path |-> backup_path[p], operations_applied |-> Len(changes[p]),
         fingerprint_before |-> fp_before[p], fingerprint_after |-> fp_after[p]]
    ELSE IF kind[p] \in {"cell.set", "table.add_column", "table.append_rows",
                          "sheet.create", "sheet.delete", "sheet.rename"} THEN
        [dry_run |-> args[p].dry_run, backup_path |-> backup_path[p]]
    ELSE [fingerprint |-> ctx[p].fp]

\* the success envelope at the end of the handler
EmitSuccess(p) ==
    /\ pc[p] = "emit"
    /\ kind[p] # "run"
    /\ emit(p, success_envelope(kind[p], ResultOf(p)))
    /\ UNCHANGED <<shared, kind, args, locals>>

(***************************************************************************)
(* WorkbookLock, as a process uses it: with WorkbookLock(path, timeout).   *)
(***************************************************************************)
\* WorkbookLock.__enter__: open the sidecar, then lock it (timeout <= 0) or
\* set the deadline of the polling loop
LockEnter(p) ==
    /\ pc[p] = "begin"
    /\ kind[p] = "holder"
    /\ lock_exists' = TRUE
    /\ IF args[p].timeout <= 0
       THEN IF CanLock(lock_owner)
            THEN /\ lock_owner' = p
                 /\ lock_pid' = p
                 /\ pc' = [pc EXCEPT ![p] = "held"]
            ELSE /\ pc' = [pc EXCEPT ![p] = "blocked"]
                 /\ UNCHANGED <<lock_owner, lock_pid>>
       ELSE /\ pc' = [pc EXCEPT ![p] = "poll"]
            /\ UNCHANGED <<lock_owner, lock_pid>>
    /\ deadline' = [deadline EXCEPT ![p] = clock + args[p].timeout]
    /\ UNCHANGED <<platform, clock, disk, backups, tmp, kind, args,
                   ctx, fp_before, fp_after, backup_path, changes, op_i, results, mutated, outs>>

\* a polling loop that never looks at the deadline
DeadlinePassed_never(now, d) == FALSE

\* "if time.monotonic() >= deadline: raise"
DeadlinePassed(now, d) == now >= d

\* one round of the polling loop: lock, or give up at the deadline, or sleep
LockPoll(p) ==
    /\ pc[p] = "poll"
    /\ IF CanLock(lock_owner)
       THEN /\ lock_owner' = p
            /\ lock_pid' = p
            /\ pc' = [pc EXCEPT ![p] = "held"]
       ELSE /\ pc' = [pc EXCEPT ![p] = IF DeadlinePassed(clock, deadline[p])
                                       THEN "blocked" ELSE "poll"]
            /\ UNCHANGED <<lock_owner, lock_pid>>
    /\ UNCHANGED <<platform, clock, disk, backups, tmp, lock_exists, kind, args, locals, outs>>

\* an __exit__ that closes nothing and leaves the lock with its owner
unlock_leaking(owner, p) == owner

\* WorkbookLock.__exit__: portalocker.unlock, close
unlock(owner, p) == IF owner = p THEN NoProc ELSE owner

\* the body of the with statement ends, normally or by an exception
LockExit(p) ==
    /\ pc[p] = "held"
    /\ lock_owner' = unlock(lock_owner, p)
    /\ pc' = [pc EXCEPT ![p] = IF args[p].body_raises THEN "raised" ELSE "done"]
    /\ UNCHANGED <<platform, clock, disk, backups, tmp, lock_exists, lock_pid,
                   kind, args, locals, outs>>

\* time.sleep(interval) of the polling loop: time passes while the waiter
\* sleeps between two attempts
LockSleep(p) ==
    /\ pc[p] = "poll"
    /\ ~CanLock(lock_owner)
    /\ ~DeadlinePassed(clock, deadline[p])
    /\ clock < deadline[p]      \* the clock is followed up to the deadline
    /\ clock' = clock + 1
    /\ UNCHANGED <<platform, disk, backups, tmp, lock_exists, lock_owner, lock_pid,
                   pc, kind, args, locals, outs>>

Next ==
    \/ Tick
    \/ \E p \in Procs :
         \/ Start(p)
         \/ LoadFingerprint(p)
         \/ LoadWorkbook(p)
         \/ ApplyValidate(p)
         \/ ApplyOp(p)
         \/ CellSetOp(p)
         \/ Backup(p)
         \/ WriteTmp(p)
         \/ Move(p)
         \/ CopyFinish(p)
         \/ FpAfter(p)
         \/ EmitSuccess(p)
         \/ LockEnter(p)
         \/ LockPoll(p)
         \/ LockExit(p)

Spec == Init /\ [][Next]_vars

(***************************************************************************)
(* The exit-code mapping on its own: a handler emits an envelope, any one  *)
(* the dispatcher can build.                                               *)
(***************************************************************************)
\* an envelope with ok = false and no error, as run_cmd builds it by setting
\* env.ok = False on a success envelope
failed_envelope(command) ==
    [ok |-> FALSE, command |-> command, result |-> None, errors |-> <<>>]

Envelopes ==
    { success_envelope("x", None), failed_envelope("x") }
    \cup { error_envelope("x", c, None) : c \in DOMAIN CodeChars }

\* _emit(envelope) at the end of a handler
EmitEnvelope(p) ==
    /\ pc[p] = "idle"
    /\ \E env \in Envelopes : emit(p, env)
    /\ UNCHANGED <<shared, kind, args, locals>>

NextExit == \E p \in Procs : EmitEnvelope(p)

(***************************************************************************)
(* The table commands: Main runs table add-column or table append-rows     *)
(* while the other process sets a cell.                                    *)
(***************************************************************************)
TableAddColumnArgs ==
    { [DefaultArgs EXCEPT !.table = t.table, !.name = t.name, !.formula = t.formula,
                          !.default_value = t.default_value,
                          !.dry_run = sf.dry_run, !.backup = sf.backup] :
        t \in { [table |-> "Sales", name |-> "Margin", formula |-> "=[@Sales]*2", default_value |-> None],
                [table |-> "Sales", name |-> "Margin", formula |-> None, default_value |-> "y"],
                [table |-> "Sales", name |-> "SALES", formula |-> None, default_value |-> None],
                [table |-> "Nope", name |-> "Margin", formula |-> None, default_value |-> None] },
        sf \in SaveFlags }
    \cup { [DefaultArgs EXCEPT !.file = Nonexistent, !.table = "Sales", !.name = "Margin"] }

RowCatalog ==
    { ("Region" :> "Central") @@ ("Sales" :> "5"),
      ("Region" :> "Central") @@ ("Sales" :> "5") @@ ("Extra" :> "bad"),
      ("Region" :> "Central") }

AppendRows(t, rows, mode, sf) ==
    [DefaultArgs EXCEPT !.table = t, !.data = "json", !.rows = rows, !.schema_mode = mode,
                        !.dry_run = sf.dry_run, !.backup = sf.backup]

TableAppendRowsArgs ==
    { AppendRows("Sales", rows, "strict", sf) :
        rows \in SeqsUpTo(RowCatalog, MaxRows), sf \in SaveFlags }
    \cup { AppendRows("Sales", rows, mode, [dry_run |-> FALSE, backup |-> FALSE]) :
             rows \in SeqsUpTo(RowCatalog, MaxRows), mode \in {"allow-missing-null", "map-by-header"} }
    \cup { AppendRows("Sales", << ("region" :> "West") @@ ("Sales" :> "7") >>, mode,
                      [dry_run |-> FALSE, backup |-> FALSE]) :
             mode \in {"map-by-header", "replace"} }
    \cup { AppendRows("Nope", <<>>, "strict", [dry_run |-> FALSE, backup |-> FALSE]),
           [DefaultArgs EXCEPT !.table = "Sales", !.data = "malformed"],
           [DefaultArgs EXCEPT !.table = "Sales", !.data = "absent"] }

StartTable(p) ==
    /\ pc[p] = "idle"
    /\ \E k \in IF p = Main THEN {"table.add_column", "table.append_rows"} ELSE {"cell.set"} :
         \E a \in IF k = "table.add_column" THEN TableAddColumnArgs
                   ELSE IF k = "table.append_rows" THEN TableAppendRowsArgs
                   ELSE ArgsOf(p, k) :
           /\ kind' = [kind EXCEPT ![p] = k]
           /\ args' = [args EXCEPT ![p] = a]
    /\ pc' = [pc EXCEPT ![p] = "begin"]
    /\ UNCHANGED <<shared, locals, outs>>

NextTable ==
    \/ Tick
    \/ \E p \in Procs :
         \/ StartTable(p)
         \/ LoadFingerprint(p)
         \/ LoadWorkbook(p)
         \/ CellSetOp(p)
         \/ TableAddColumnOp(p)
         \/ TableAppendRowsOp(p)
         \/ Backup(p)
         \/ WriteTmp(p)
         \/ Move(p)
         \/ CopyFinish(p)
         \/ EmitSuccess(p)

SpecTable == Init /\ [][NextTable]_vars

(***************************************************************************)
(* run_cmd and execute_workflow: Main runs a workflow while the other      *)
(* process inspects the workbook.                                          *)
(***************************************************************************)
_MUTATING_STEPS ==
    {"table.create", "table.add_column", "table.append_rows", "table.delete_column",
     "cell.set", "sheet.delete", "sheet.rename", "apply"}

\* a WorkflowStep; args holds every argument by name, dry_run is args["dry_run"]
Step(run, a, dry_run) == [run |-> run, args |-> a, dry_run |-> dry_run]

NoStepArgs ==
    [has_sheet |-> FALSE, sheet |-> None, ref |-> NoRef, value |-> None,
     force_overwrite_formulas |-> FALSE, table |-> None, rows |-> <<>>,
     schema_mode |-> "strict", plan |-> NoPlan, name |-> None, new_name |-> None,
     rect |-> Rect(0, 0, 0, 0), columns |-> <<>>, formula |-> None, default_value |-> None]

\* the outcome of the body of one step: the model after it, step_result["ok"],
\* step_result.get("error") and whether the branch reached "mutated = True"
StepOutcome(wb, ok, error, m) == [wb |-> wb, ok |-> ok, error |-> error, mutated |-> m]

\* an adapter call of a mutating step: "mutated = True" follows the call, an
\* exception of the call goes to "except Exception as e"
AdapterStep(r) ==
    IF r.ok THEN StepOutcome(r.wb, TRUE, None, TRUE) ELSE StepOutcome(r.wb, FALSE, r.exc, FALSE)

\* the step "validate.refs": valid = all(c.get("passed") for c in checks)
validate_refs(wb, a) ==
    IF a.has_sheet THEN (a.sheet \in Range(wb.sheetnames) /\ a.ref.matches) ELSE FALSE

\* the loop of the step "apply" over plan.operations: only table.add_column,
\* table.append_rows (without schema_mode) and table.create are dispatched,
\* any other type is passed over
RECURSIVE workflow_apply_ops(_, _, _)
workflow_apply_ops(wb, ops, i) ==
    IF i > Len(ops) THEN Returned(wb, NoChange)
    ELSE IF ops[i].type = "table.add_column"
    THEN LET r == table_add_column(wb, ops[i].table, ops[i].name, ops[i].formula, ops[i].value)
         IN IF r.ok THEN workflow_apply_ops(r.wb, ops, i + 1) ELSE r
    ELSE IF ops[i].type = "table.append_rows"
    THEN LET r == table_append_rows(wb, ops[i].table, ops[i].rows, "strict")
         IN IF r.ok THEN workflow_apply_ops(r.wb, ops, i + 1) ELSE r
    ELSE IF ops[i].type = "table.create"
    THEN LET r == table_create(wb, ops[i].sheet, ops[i].table, ops[i].rect, ops[i].columns)
         IN IF r.ok THEN workflow_apply_ops(r.wb, ops, i + 1) ELSE r
    ELSE workflow_apply_ops(wb, ops, i + 1)

\* the try block of one step of execute_workflow
run_step(c, step) ==
    LET a == step.args IN
    IF step.run = "wb.inspect" THEN StepOutcome(c.wb, TRUE, None, FALSE)
    ELSE IF step.run = "cell.set"
    THEN AdapterStep(cell_set(c.wb, a.sheet, a.ref, a.value, a.force_overwrite_formulas))
    ELSE IF step.run = "table.append_rows"
    THEN AdapterStep(table_append_rows(c.wb, a.table, a.rows, a.schema_mode))
    ELSE IF step.run = "table.create"
    THEN AdapterStep(table_create(c.wb, a.sheet, a.table, a.rect, a.columns))
    ELSE IF step.run = "table.add_column"
    THEN AdapterStep(table_add_column(c.wb, a.table, a.name, a.formula, a.default_value))
    ELSE IF step.run = "table.delete_column"
    THEN AdapterStep(table_delete_column(c.wb, a.table, a.name))
    ELSE IF step.run = "sheet.delete"
    THEN AdapterStep(sheet_delete(c.wb, a.name))
    ELSE IF step.run = "sheet.rename"
    THEN AdapterStep(sheet_rename(c.wb, a.name, a.new_name))
    ELSE IF step.run = "validate.refs"
    THEN StepOutcome(c.wb, validate_refs(c.wb, a), None, FALSE)
    ELSE IF step.run = "apply"
    THEN IF ~validate_plan(c, a.plan).valid THEN StepOutcome(c.wb, FALSE, None, FALSE)
         ELSE AdapterStep(workflow_apply_ops(c.wb, a.plan.operations, 1))
    ELSE StepOutcome(c.wb, FALSE, "Unknown step command", FALSE)

\* a loop that never breaks
StopsAfter_never(ok, defaults) == FALSE

\* "if not step_result.get("ok", False) and workflow.defaults.stop_on_error: break"
StopsAfter(ok, defaults) == ~ok /\ defaults.stop_on_error

\* "if not workflow.defaults.dry_run and mutated: ctx.save(workbook_path)"
SavesAfter(defaults, m) == ~defaults.dry_run /\ m

\* one iteration of "for step in workflow.steps"
RunStep(p) ==
    /\ pc[p] = "step"
    /\ LET wf == args[p].workflow
           i == op_i[p] + 1
           step == wf.steps[i]
           skipped == step.run \in _MUTATING_STEPS /\ (wf.defaults.dry_run \/ step.dry_run)
           o == IF skipped THEN StepOutcome(ctx[p].wb, TRUE, None, FALSE)
                ELSE run_step(ctx[p], step)
           m == mutated[p] \/ o.mutated
       IN /\ op_i' = [op_i EXCEPT ![p] = i]
          /\ ctx' = [ctx EXCEPT ![p].wb = o.wb]
          /\ mutated' = [mutated EXCEPT ![p] = m]
          /\ results' = [results EXCEPT ![p] =
                 Append(@, [step_id |-> i, run |-> step.run, ok |-> o.ok, error |-> o.error,
                            skipped |-> skipped])]
          /\ pc' = [pc EXCEPT ![p] =
                 IF i < Len(wf.steps) /\ ~StopsAfter(o.ok, wf.defaults) THEN "step"
                 ELSE IF SavesAfter(wf.defaults, m) THEN "save" ELSE "emit"]
    /\ UNCHANGED <<shared, kind, args, fp_before, fp_after, backup_path, changes, deadline, outs>>

\* the result of execute_workflow
WorkflowResult(p) ==
    [steps_total |-> Len(args[p].workflow.steps),
     steps_passed |-> Cardinality({k \in 1..Len(results[p]) : results[p][k].ok}),
     ok |-> \A k \in 1..Len(results[p]) : results[p][k].ok,
     steps |-> results[p]]

\* the errors run_cmd appends: one for each step with not ok and an error
RECURSIVE StepErrors(_, _)
StepErrors(steps, k) ==
    IF k > Len(steps) THEN <<>>
    ELSE (IF ~steps[k].ok /\ steps[k].error # None
          THEN << [code |-> "ERR_WORKFLOW_STEP_FAILED", details |-> None] >> ELSE <<>>)
         \o StepErrors(steps, k + 1)

\* the envelope of run_cmd: a success envelope, turned into ok = false with
\* the step errors when the result is not ok
run_envelope(result) ==
    IF result.ok THEN success_envelope("run", result)
    ELSE [ok |-> FALSE, command |-> "run", result |-> result,
          errors |-> StepErrors(result.steps, 1)]

EmitRun(p) ==
    /\ pc[p] = "emit"
    /\ kind[p] = "run"
    /\ emit(p, run_envelope(WorkflowResult(p)))
    /\ UNCHANGED <<shared, kind, args, locals>>

CellSetStep(sheet, ref, dry_run) ==
    Step("cell.set", [NoStepArgs EXCEPT !.has_sheet = TRUE, !.sheet = sheet, !.ref = ref,
                                        !.value = "w"], dry_run)

ApplyStep(ops) ==
    Step("apply", [NoStepArgs EXCEPT !.plan = Plan(NoFingerprint, TRUE, <<>>, ops)], FALSE)

StepCatalog ==
    { Step("wb.inspect", NoStepArgs, FALSE),
      CellSetStep("Revenue", A1(2, 1), FALSE),
      CellSetStep("Revenue", A1(2, 1), TRUE),
      CellSetStep("Summary", A1(1, 2), FALSE),
      Step("table.append_rows",
           [NoStepArgs EXCEPT !.table = "Sales",
                              !.rows = << ("Region" :> "Central") @@ ("Sales" :> "5"),
                                          ("Region" :> "Central") @@ ("Extra" :> "bad") >>],
           FALSE),
      Step("validate.refs", [NoStepArgs EXCEPT !.ref = A1(1, 1)], FALSE),
      ApplyStep(<< Op("cell.set", None, "Revenue", None, None, "x", A1(2, 1), FALSE) >>),
      ApplyStep(<< Op("table.add_column", "Sales", None, "Margin", "=[@Sales]*2", None, NoRef, FALSE) >>),
      ApplyStep(<< Op("table.add_column", "Sales", None, "SALES", None, None, NoRef, FALSE) >>) }

Workflows ==
    { [target |-> Book, defaults |-> [dry_run |-> d, stop_on_error |-> e], steps |-> st] :
        d \in BOOLEAN, e \in BOOLEAN, st \in SeqsUpTo(StepCatalog, MaxSteps) }

RunArgs ==
    { [DefaultArgs EXCEPT !.workflow = wf] : wf \in Workflows }
    \cup { [DefaultArgs EXCEPT !.file = f, !.workflow = [NoWorkflow EXCEPT !.target = t,
                                   !.steps = << Step("wb.inspect", NoStepArgs, FALSE) >>]] :
             f \in {None, Nonexistent}, t \in {None, Book} }

StartRun(p) ==
    /\ pc[p] = "idle"
    /\ \E k \in IF p = Main THEN {"run"} ELSE {"wb.inspect"} :
         \E a \in IF k = "run" THEN RunArgs ELSE ArgsOf(p, k) :
           /\ kind' = [kind EXCEPT ![p] = k]
           /\ args' = [args EXCEPT ![p] = a]
    /\ pc' = [pc EXCEPT ![p] = "begin"]
    /\ UNCHANGED <<shared, locals, outs>>

NextRun ==
    \/ Tick
    \/ \E p \in Procs :
         \/ StartRun(p)
         \/ LoadFingerprint(p)
         \/ LoadWorkbook(p)
         \/ RunStep(p)
         \/ WriteTmp(p)
         \/ Move(p)
         \/ CopyFinish(p)
         \/ EmitSuccess(p)
         \/ EmitRun(p)

SpecRun == Init /\ [][NextRun]_vars

(***************************************************************************)
(* The planner commands and validate plan: Main validates a plan that the  *)
(* planner commands built against the file as it is when Main starts; the  *)
(* other process sets a cell.                                              *)
(***************************************************************************)
\* PatchPlan(plan_id=, target=PlanTarget(file=file, fingerprint=fp)), or the
\* plan loaded from the --append file, then the three appends
AppendToPlan(plan_file, fp, op, pres) ==
    LET plan == IF plan_file = NoPlanFile THEN Plan(fp, TRUE, <<>>, <<>>) ELSE plan_file
    IN [plan EXCEPT !.operations = Append(@, op), !.preconditions = @ \o pres]

\* plan add-column --table --name [--formula] [--default]
plan_add_column(plan_file, fp, c) ==
    AppendToPlan(plan_file, fp,
                 Op("table.add_column", c.table, None, c.name, c.formula, c.value, NoRef, FALSE),
                 << Precondition("table_exists", None, c.table, None) >>)

\* plan set-cells --ref --value: the ref is split at "!", a ref without a
\* sheet gives sheet_name "" and no precondition
plan_set_cells(plan_file, fp, c) ==
    AppendToPlan(plan_file, fp,
                 Op("cell.set", None, IF c.has_sheet THEN c.sheet ELSE "", None, None, c.value,
                    c.ref, FALSE),
                 IF c.has_sheet THEN << Precondition("sheet_exists", c.sheet, None, None) >>
                 ELSE <<>>)

\* plan format --ref [--style] [--decimals]
plan_format(plan_file, fp, c) ==
    AppendToPlan(plan_file, fp,
                 Op("format.number", None, None, None, None, None, c.ref, FALSE), <<>>)

PlannerCmd(cmd, table, name, formula, value, has_sheet, sheet, ref) ==
    [cmd |-> cmd, table |-> table, name |-> name, formula |-> formula, value |-> value,
     has_sheet |-> has_sheet, sheet |-> sheet, ref |-> ref]

PlannerCmds ==
    { PlannerCmd("plan.add_column", "Sales", "Margin", "=[@Sales]*2", None, FALSE, None, NoRef),
      PlannerCmd("plan.add_column", "Sales", "SALES", None, "y", FALSE, None, NoRef),
      PlannerCmd("plan.add_column", "Nope", "Margin", None, "y", FALSE, None, NoRef),
      PlannerCmd("plan.set_cells", None, None, None, "x", TRUE, "Revenue", A1(2, 1)),
      PlannerCmd("plan.set_cells", None, None, None, "x", TRUE, "Nope", A1(1, 1)),
      PlannerCmd("plan.set_cells", None, None, None, "x", FALSE, None, A1(1, 1)),
      PlannerCmd("plan.format", None, None, None, None, FALSE, None, A1(2, 2)) }

\* the plan file after the planner commands cmds ran in this order, each with
\* --append on the same file, against a workbook file with fingerprint fp
RECURSIVE BuildPlan(_, _, _)
BuildPlan(plan_file, fp, cmds) ==
    IF cmds = <<>> THEN plan_file
    ELSE LET c == Head(cmds)
             next == IF c.cmd = "plan.add_column" THEN plan_add_column(plan_file, fp, c)
                     ELSE IF c.cmd = "plan.set_cells" THEN plan_set_cells(plan_file, fp, c)
                     ELSE plan_format(plan_file, fp, c)
         IN BuildPlan(next, fp, Tail(cmds))

\* the failed checks of a validation result, in their order
RECURSIVE FailedChecks(_)
FailedChecks(checks) ==
    IF checks = <<>> THEN <<>>
    ELSE (IF Head(checks).passed THEN <<>> ELSE << Head(checks) >>) \o FailedChecks(Tail(checks))

\* the envelope of validate_plan_cmd
validate_plan_envelope(result) ==
    IF result.valid THEN success_envelope("validate.plan", result)
    ELSE [ok |-> FALSE, command |-> "validate.plan", result |-> result,
          errors |-> << [code |-> "ERR_VALIDATION_FAILED",
                         details |-> [checks |-> FailedChecks(result.checks)]] >>]

\* validate_plan_cmd after the load: validate_plan(ctx, plan), then _emit
ValidatePlanCmd(p) ==
    /\ pc[p] = "validate_plan"
    /\ emit(p, validate_plan_envelope(validate_plan(ctx[p], args[p].plan)))
    /\ UNCHANGED <<shared, kind, args, locals>>

StartPlan(p) ==
    /\ pc[p] = "idle"
    /\ IF p = Main
       THEN /\ kind' = [kind EXCEPT ![p] = "validate.plan"]
            /\ \/ \E cmds \in SeqsUpTo(PlannerCmds, MaxOps) \ {<<>>} :
                    args' = [args EXCEPT ![p] =
                               [DefaultArgs EXCEPT !.plan = BuildPlan(NoPlanFile, fingerprint(disk), cmds)]]
               \/ args' = [args EXCEPT ![p] = DefaultArgs]
       ELSE /\ kind' = [kind EXCEPT ![p] = "cell.set"]
            /\ \E a \in ArgsOf(p, "cell.set") : args' = [args EXCEPT ![p] = a]
    /\ pc' = [pc EXCEPT ![p] = "begin"]
    /\ UNCHANGED <<shared, locals, outs>>

NextPlan ==
    \/ Tick
    \/ \E p \in Procs :
         \/ StartPlan(p)
         \/ LoadFingerprint(p)
         \/ LoadWorkbook(p)
         \/ ValidatePlanCmd(p)
         \/ CellSetOp(p)
         \/ Backup(p)
         \/ WriteTmp(p)
         \/ Move(p)
         \/ CopyFinish(p)
         \/ EmitSuccess(p)

SpecPlan == Init /\ [][NextPlan]_vars

(***************************************************************************)
(* validate plan with plans that carry preconditions only.                 *)
(***************************************************************************)
\* a Precondition on a cell: sheet and ref
CellPrecondition(type, sheet, ref) ==
    [Precondition(type, sheet, None, None) EXCEPT !.ref = ref]

PreCatalog ==
    { Precondition("sheet_exists", "Revenue", None, None),
      Precondition("sheet_exists", "Nope", None, None),
      Precondition("table_exists", None, "Sales", None),
      Precondition("table_exists", None, "Nope", None),
      Precondition("column_exists", None, "Sales", "Region"),
      Precondition("column_exists", None, "Sales", "Margin"),
      CellPrecondition("cell_not_empty", "Revenue", A1(1, 1)),
      CellPrecondition("cell_not_empty", "Revenue", A1(2, 3)) }

StartPre(p) ==
    /\ pc[p] = "idle"
    /\ p = Main
    /\ kind' = [kind EXCEPT ![p] = "validate.plan"]
    /\ \E pres \in SeqsUpTo(PreCatalog, MaxOps) \ {<<>>} :
         args' = [args EXCEPT ![p] =
                    [DefaultArgs EXCEPT !.plan = Plan(NoFingerprint, TRUE, pres, <<>>)]]
    /\ pc' = [pc EXCEPT ![p] = "begin"]
    /\ UNCHANGED <<shared, locals, outs>>

NextPre ==
    \E p \in Procs :
      \/ StartPre(p)
      \/ LoadFingerprint(p)
      \/ LoadWorkbook(p)
      \/ ValidatePlanCmd(p)

SpecPre == Init /\ [][NextPre]_vars

SpecExit == Init /\ [][NextExit]_vars

(***************************************************************************)
(* apply with plans of table operations: Main applies a plan that creates  *)
(* tables, adds columns and appends rows.                                  *)
(***************************************************************************)
\* an Operation with the fields of the table operations
TableOp(type, sheet, table, name, rect, columns, rows) ==
    [type |-> type, table |-> table, sheet |-> sheet, name |-> name, formula |-> None,
     value |-> IF type = "cell.set" THEN "x" ELSE None,
     ref |-> IF type = "cell.set" THEN A1(1, 1) ELSE NoRef,
     force_overwrite_formulas |-> FALSE,
     rect |-> rect, columns |-> columns, rows |-> rows, schema_mode |-> "strict"]

NoRect == Rect(0, 0, 0, 0)

TableOps ==
    { TableOp("table.create", "Revenue", "T2", None, Rect(1, 3, 2, 3), <<"Extra">>, <<>>),
      TableOp("table.create", "Revenue", "T2", None, Rect(3, 1, 4, 2), <<"Region", "Sales">>, <<>>),
      TableOp("table.create", "Revenue", "T3", None, Rect(2, 3, 3, 4), <<"Extra", "Margin">>, <<>>),
      TableOp("table.create", "Revenue", "T3", None, Rect(2, 2, 3, 3), <<>>, <<>>),
      TableOp("table.create", "Nope", "T3", None, Rect(1, 1, 2, 2), <<"Region", "Sales">>, <<>>),
      TableOp("table.add_column", None, "Sales", "Margin", NoRect, <<>>, <<>>),
      TableOp("table.add_column", None, "T2", "Margin", NoRect, <<>>, <<>>),
      TableOp("table.append_rows", None, "Sales", None, NoRect, <<>>,
              << ("Region" :> "Central") @@ ("Sales" :> "5") >>),
      TableOp("cell.set", "Nope", None, None, NoRect, <<>>, <<>>) }

TablePlans == { Plan(NoFingerprint, TRUE, <<>>, ops) : ops \in SeqsUpTo(TableOps, MaxOps) }

StartApplyTables(p) ==
    /\ pc[p] = "idle"
    /\ p = Main
    /\ kind' = [kind EXCEPT ![p] = "apply"]
    /\ \E pl \in TablePlans, d \in BOOLEAN :
         args' = [args EXCEPT ![p] = [DefaultArgs EXCEPT !.plan = pl, !.dry_run = d]]
    /\ pc' = [pc EXCEPT ![p] = "begin"]
    /\ UNCHANGED <<shared, locals, outs>>

NextApplyTables ==
    \E p \in Procs :
      \/ StartApplyTables(p)
      \/ LoadFingerprint(p)
      \/ LoadWorkbook(p)
      \/ ApplyValidate(p)
      \/ ApplyOp(p)
      \/ WriteTmp(p)
      \/ Move(p)
      \/ CopyFinish(p)
      \/ FpAfter(p)
      \/ EmitSuccess(p)

SpecApplyTables == Init /\ [][NextApplyTables]_vars

(***************************************************************************)
(* apply run twice with the same plan file: the second invocation starts   *)
(* after the first has ended.                                              *)
(***************************************************************************)
ReapplyOps ==
    { TableOp("cell.set", "Revenue", None, None, NoRect, <<>>, <<>>),
      TableOp("table.add_column", None, "Sales", "Margin", NoRect, <<>>, <<>>),
      TableOp("table.append_rows", None, "Sales", None, NoRect, <<>>,
              << ("Region" :> "Central") @@ ("Sales" :> "5") >>) }

ReapplyPlans ==
    { Plan(f, x, <<>>, ops) :
        f \in {NoFingerprint, fingerprint(InitContent)}, x \in BOOLEAN,
        ops \in SeqsUpTo(ReapplyOps, MaxOps) \ {<<>>} }

StartReapply(p) ==
    /\ pc[p] = "idle"
    /\ p # Main => (kind[Main] = "apply" /\ pc[Main] \in {"done", "raised"})
    /\ kind' = [kind EXCEPT ![p] = "apply"]
    /\ \E pl \in ReapplyPlans, d \in BOOLEAN :
         /\ p # Main => pl = args[Main].plan
         /\ args' = [args EXCEPT ![p] = [DefaultArgs EXCEPT !.plan = pl, !.dry_run = d]]
    /\ pc' = [pc EXCEPT ![p] = "begin"]
    /\ UNCHANGED <<shared, locals, outs>>

NextReapply ==
    \E p \in Procs :
      \/ StartReapply(p)
      \/ LoadFingerprint(p)
      \/ LoadWorkbook(p)
      \/ ApplyValidate(p)
      \/ ApplyOp(p)
      \/ WriteTmp(p)
      \/ Move(p)
      \/ CopyFinish(p)
      \/ FpAfter(p)
      \/ EmitSuccess(p)

SpecReapply == Init /\ [][NextReapply]_vars

(***************************************************************************)
(* The sheet commands: xl sheet create, xl sheet delete, xl sheet rename,  *)
(* and the workflow steps sheet.delete and sheet.rename of xl run.  The    *)
(* second invocation starts after the first has ended.                     *)
(***************************************************************************)
\* sheet_create: ERR_SHEET_EXISTS when the name is taken, else
\* ctx.wb.create_sheet(name) and the "Save" block
SheetCreateOp(p) ==
    /\ pc[p] = "op"
    /\ kind[p] = "sheet.create"
    /\ LET a == args[p] IN
       IF a.name \in Range(ctx[p].wb.sheetnames)
       THEN /\ emit(p, error_envelope("sheet.create", "ERR_SHEET_EXISTS", None))
            /\ UNCHANGED <<ctx, changes>>
       ELSE /\ ctx' = [ctx EXCEPT ![p].wb.sheetnames = Append(@, a.name)]
            /\ changes' = [changes EXCEPT ![p] = << [type |-> "sheet.create", target |-> a.name] >>]
            /\ pc' = [pc EXCEPT ![p] = AfterOps(a)]
            /\ UNCHANGED outs
    /\ UNCHANGED <<shared, kind, args, fp_before, fp_after, backup_path, op_i, deadline, results, mutated>>

\* the error code of xl sheet delete for an exception of sheet_delete
SheetDeleteErrorCode(exc) ==
    IF exc = "KeyError: Sheet not found" THEN "ERR_SHEET_NOT_FOUND" ELSE "ERR_LAST_SHEET"

\* the error code of xl sheet rename for an exception of sheet_rename
SheetRenameErrorCode(exc) ==
    IF exc = "KeyError: Sheet not found" THEN "ERR_SHEET_NOT_FOUND" ELSE "ERR_SHEET_EXISTS"

\* xl sheet delete and xl sheet rename: the engine call, the error envelope
\* for its exception, else the "Save" block
SheetEngineOp(p) ==
    /\ pc[p] = "op"
    /\ kind[p] \in {"sheet.delete", "sheet.rename"}
    /\ LET a == args[p]
           r == IF kind[p] = "sheet.delete" THEN sheet_delete(ctx[p].wb, a.name)
                ELSE sheet_rename(ctx[p].wb, a.name, a.new_name)
       IN /\ ctx' = [ctx EXCEPT ![p].wb = r.wb]
          /\ IF r.ok
             THEN /\ changes' = [changes EXCEPT ![p] = <<r.change>>]
                  /\ pc' = [pc EXCEPT ![p] = AfterOps(a)]
                  /\ UNCHANGED outs
             ELSE /\ emit(p, error_envelope(kind[p],
                                            IF kind[p] = "sheet.delete"
                                            THEN SheetDeleteErrorCode(r.exc)
                                            ELSE SheetRenameErrorCode(r.exc), None))
                  /\ UNCHANGED changes
    /\ UNCHANGED <<shared, kind, args, fp_before, fp_after, backup_path, op_i, deadline, results, mutated>>

SheetStep(run, name, new_name) ==
    Step(run, [NoStepArgs EXCEPT !.name = name, !.new_name = new_name], FALSE)

SheetSteps ==
    { SheetStep("sheet.delete", "Summary", None),
      SheetStep("sheet.delete", "Revenue", None),
      SheetStep("sheet.delete", "Costs", None),
      SheetStep("sheet.rename", "Summary", "Costs"),
      SheetStep("sheet.rename", "Summary", "Revenue") }

SheetArgs(k) ==
    IF k = "run"
    THEN { [DefaultArgs EXCEPT !.workflow =
              [target |-> Book, defaults |-> [dry_run |-> d, stop_on_error |-> e], steps |-> st]] :
             d \in BOOLEAN, e \in BOOLEAN, st \in SeqsUpTo(SheetSteps, MaxSteps) \ {<<>>} }
    ELSE IF k = "sheet.create"
    THEN { [DefaultArgs EXCEPT !.name = n, !.dry_run = d] :
             n \in {"Costs", "Revenue"}, d \in BOOLEAN }
    ELSE IF k = "sheet.delete"
    THEN { [DefaultArgs EXCEPT !.name = n, !.dry_run = d] :
             n \in {"Summary", "Revenue", "Costs"}, d \in BOOLEAN }
    ELSE { [DefaultArgs EXCEPT !.name = "Summary", !.new_name = n, !.dry_run = d] :
             n \in {"Costs", "Revenue"}, d \in BOOLEAN }

StartSheet(p) ==
    /\ pc[p] = "idle"
    /\ p # Main => pc[Main] \in {"done", "raised"}
    /\ \E k \in IF p = Main THEN {"run", "sheet.create", "sheet.delete", "sheet.rename"}
                ELSE {"sheet.create", "sheet.delete"} :
         \E a \in SheetArgs(k) :
           /\ kind' = [kind EXCEPT ![p] = k]
           /\ args' = [args EXCEPT ![p] = a]
    /\ pc' = [pc EXCEPT ![p] = "begin"]
    /\ UNCHANGED <<shared, locals, outs>>

NextSheet ==
    \E p \in Procs :
      \/ StartSheet(p)
      \/ LoadFingerprint(p)
      \/ LoadWorkbook(p)
      \/ SheetCreateOp(p)
      \/ SheetEngineOp(p)
      \/ RunStep(p)
      \/ WriteTmp(p)
      \/ Move(p)
      \/ CopyFinish(p)
      \/ EmitSuccess(p)
      \/ EmitRun(p)

SpecSheet == Init /\ [][NextSheet]_vars

(***************************************************************************)
(* xl run with the table steps table.create, table.add_column,             *)
(* table.delete_column and table.append_rows.                              *)
(***************************************************************************)
TableStep(run, sheet, table, name, rect, columns, rows) ==
    Step(run, [NoStepArgs EXCEPT !.sheet = sheet, !.table = table, !.name = name,
                                 !.rect = rect, !.columns = columns, !.rows = rows], FALSE)

TableSteps ==
    { TableStep("table.create", "Summary", "T2", None, Rect(3, 1, 4, 2), <<"Region", "region">>, <<>>),
      TableStep("table.create", "Summary", "T2", None, Rect(3, 2, 4, 2), <<"Extra">>, <<>>),
      TableStep("table.create", "Summary", "T2", None, Rect(3, 1, 4, 2), <<"Region", "Sales">>, <<>>),
      TableStep("table.add_column", None, "Sales", "Margin", NoRect, <<>>, <<>>),
      TableStep("table.add_column", None, "Sales", "SALES", NoRect, <<>>, <<>>),
      TableStep("table.delete_column", None, "Sales", "Region", NoRect, <<>>, <<>>),
      TableStep("table.delete_column", None, "Sales", "Margin", NoRect, <<>>, <<>>),
      TableStep("table.delete_column", None, "T2", "Extra", NoRect, <<>>, <<>>),
      TableStep("table.append_rows", None, "Sales", None, NoRect, <<>>,
                << ("Region" :> "Central") @@ ("Sales" :> "5") >>) }

TableStepArgs ==
    { [DefaultArgs EXCEPT !.workflow =
         [target |-> Book, defaults |-> [dry_run |-> d, stop_on_error |-> e], steps |-> st]] :
        d \in BOOLEAN, e \in BOOLEAN, st \in SeqsUpTo(TableSteps, MaxSteps) \ {<<>>} }

StartTableSteps(p) ==
    /\ pc[p] = "idle"
    /\ p = Main
    /\ kind' = [kind EXCEPT ![p] = "run"]
    /\ \E a \in TableStepArgs : args' = [args EXCEPT ![p] = a]
    /\ pc' = [pc EXCEPT ![p] = "begin"]
    /\ UNCHANGED <<shared, locals, outs>>

NextTableSteps ==
    \E p \in Procs :
      \/ StartTableSteps(p)
      \/ LoadFingerprint(p)
      \/ LoadWorkbook(p)
      \/ RunStep(p)
      \/ WriteTmp(p)
      \/ Move(p)
      \/ CopyFinish(p)
      \/ EmitRun(p)

SpecTableSteps == Init /\ [][NextTableSteps]_vars

(***************************************************************************)
(* StdioServer: Main serves requests read from stdin, one at a time, and   *)
(* keeps the WorkbookContext of a file between requests.  ctx[Main] is     *)
(* self._contexts[key], NoCtx when the key is not cached; stdout[Main]     *)
(* holds the responses written.                                            *)
(***************************************************************************)
MaxRequests == 3

\* StdioServer._get_ctx: the cached context, or a new WorkbookContext(file)
_get_ctx(c, content) ==
    IF c # NoCtx THEN c ELSE [fp |-> fingerprint(content), wb |-> content.wb]

ServerStart(p) ==
    /\ pc[p] = "idle"
    /\ p = Main
    /\ kind' = [kind EXCEPT ![p] = "serve"]
    /\ pc' = [pc EXCEPT ![p] = "serve"]
    /\ UNCHANGED <<shared, args, locals, outs>>

\* handle_request for "wb.inspect": the response carries get_workbook_meta(),
\* whose fingerprint is ctx.fp
ServeInspect(p) ==
    /\ pc[p] = "serve" /\ op_i[p] < MaxRequests
    /\ LET c == _get_ctx(ctx[p], disk)
       IN /\ ctx' = [ctx EXCEPT ![p] = c]
          /\ stdout' = [stdout EXCEPT ![p] =
                 Append(@, [ok |-> TRUE, command |-> "wb.inspect",
                            result |-> [fingerprint |-> c.fp], errors |-> <<>>])]
    /\ op_i' = [op_i EXCEPT ![p] = @ + 1]
    /\ UNCHANGED <<shared, pc, kind, args, fp_before, fp_after, backup_path, changes,
                   deadline, results, mutated, exits, plan_out>>

\* handle_request for "cell.set": cell_set on the cached context, then
\* ctx.save(file); an exception of either becomes an ok = false response
ServeCellSet(p) ==
    /\ pc[p] = "serve" /\ op_i[p] < MaxRequests
    /\ \E ref \in {A1(2, 1), A1(1, 2)}, v \in {"x", "y"}, sheet \in {"Revenue", "Summary"},
          saved \in BOOLEAN :
         LET c == _get_ctx(ctx[p], disk)
             r == cell_set(c.wb, sheet, ref, v, FALSE)
         IN /\ ctx' = [ctx EXCEPT ![p] = [c EXCEPT !.wb = r.wb]]
            /\ disk' = IF r.ok /\ saved THEN Serialize(r.wb, clock) ELSE disk
            /\ stdout' = [stdout EXCEPT ![p] =
                   Append(@, [ok |-> r.ok /\ saved, command |-> "cell.set",
                              result |-> None, errors |-> <<>>])]
    /\ op_i' = [op_i EXCEPT ![p] = @ + 1]
    /\ UNCHANGED <<platform, clock, backups, tmp, lock_exists, lock_owner, lock_pid,
                   pc, kind, args, fp_before, fp_after, backup_path, changes,
                   deadline, results, mutated, exits, plan_out>>

\* handle_request for "close": _close_all() clears the cache
ServeClose(p) ==
    /\ pc[p] = "serve" /\ op_i[p] < MaxRequests
    /\ ctx' = [ctx EXCEPT ![p] = NoCtx]
    /\ stdout' = [stdout EXCEPT ![p] =
           Append(@, [ok |-> TRUE, command |-> "close", result |-> None, errors |-> <<>>])]
    /\ op_i' = [op_i EXCEPT ![p] = @ + 1]
    /\ UNCHANGED <<shared, pc, kind, args, fp_before, fp_after, backup_path, changes,
                   deadline, results, mutated, exits, plan_out>>

NextServer ==
    \/ Tick
    \/ \E p \in Procs :
         \/ ServerStart(p)
         \/ ServeInspect(p)
         \/ ServeCellSet(p)
         \/ ServeClose(p)

SpecServer == Init /\ [][NextServer]_vars

(***************************************************************************)
(* plan compose: Main merges plan files into one plan.                     *)
(***************************************************************************)
MaxPlans == 2    \* most --plan options of one plan compose

\* a plan file: a PatchPlan whose target names a workbook file
PlanFile(file, f, ops) ==
    [valid |-> TRUE, exists |-> TRUE,
     target |-> [file |-> file, fingerprint |-> f],
     options |-> [fail_on_external_change |-> TRUE],
     preconditions |-> <<>>, operations |-> ops]

\* a file that _load_patch_plan rejects
InvalidPlanFile == [PlanFile("", NoFingerprint, <<>>) EXCEPT !.valid = FALSE]

Other == "other.xlsx"

\* the loop of plan_compose over the --plan files from the i-th on:
\* [code, plan], code being None when the loop ends normally
RECURSIVE ComposeFrom(_, _, _, _, _, _)
ComposeFrom(plans, i, target_file, fp, merged_ops, merged_pre) ==
    IF i > Len(plans)
    THEN [code |-> None,
          plan |-> [PlanFile(target_file, fp, merged_ops) EXCEPT !.preconditions = merged_pre]]
    ELSE LET plan == plans[i] IN
         IF ~plan.valid THEN [code |-> "ERR_PLAN_INVALID", plan |-> NoPlanFile]
         ELSE IF target_file = ""
         THEN ComposeFrom(plans, i + 1, plan.target.file, plan.target.fingerprint,
                          merged_ops \o plan.operations, merged_pre \o plan.preconditions)
         ELSE IF /\ plan.target.fingerprint # NoFingerprint /\ fp # NoFingerprint
                 /\ plan.target.fingerprint # fp
         THEN [code |-> "ERR_PLAN_TARGET_MISMATCH", plan |-> NoPlanFile]
         ELSE ComposeFrom(plans, i + 1, target_file, fp,
                          merged_ops \o plan.operations, merged_pre \o plan.preconditions)

plan_compose(plans) ==
    IF plans = <<>> THEN [code |-> "ERR_MISSING_PARAM", plan |-> NoPlanFile]
    ELSE ComposeFrom(plans, 1, "", NoFingerprint, <<>>, <<>>)

\* plan_compose up to _write_plan(out, composed)
PlanCompose(p) ==
    /\ pc[p] = "begin"
    /\ kind[p] = "plan.compose"
    /\ LET r == plan_compose(args[p].plans) IN
       IF r.code # None
       THEN emit(p, error_envelope("plan.compose", r.code, None))
       ELSE /\ plan_out' = IF args[p].out THEN r.plan ELSE plan_out
            /\ pc' = [pc EXCEPT ![p] = "emit"]
            /\ UNCHANGED <<stdout, exits>>
    /\ UNCHANGED <<shared, kind, args, locals>>

\* the success envelope of plan_compose, with the composed plan as its result
EmitComposed(p) ==
    /\ pc[p] = "emit"
    /\ kind[p] = "plan.compose"
    /\ emit(p, success_envelope("plan.compose", plan_compose(args[p].plans).plan))
    /\ UNCHANGED <<shared, kind, args, locals>>

\* plans against the workbook, against a copy of it under another name, and
\* against another workbook with other bytes
PlanFiles ==
    { PlanFile(Book, fingerprint(InitContent), << OpA >>) :
        OpA \in { Op("cell.set", None, "Revenue", None, None, "x", A1(2, 1), FALSE) } }
    \cup { PlanFile(Book, NoFingerprint, <<>>),
           PlanFile(Other, fingerprint(InitContent), <<>>),
           PlanFile(Other, fingerprint(Serialize(InitWb, 1)), <<>>),
           PlanFile(Other, NoFingerprint,
                    << Op("table.add_column", "Sales", None, "Margin", None, "y", NoRef, FALSE) >>),
           InvalidPlanFile }

ComposeArgs ==
    { [DefaultArgs EXCEPT !.plans = ps, !.out = o] :
        ps \in SeqsUpTo(PlanFiles, MaxPlans), o \in BOOLEAN }

StartCompose(p) ==
    /\ pc[p] = "idle"
    /\ p = Main
    /\ kind' = [kind EXCEPT ![p] = "plan.compose"]
    /\ \E a \in ComposeArgs : args' = [args EXCEPT ![p] = a]
    /\ pc' = [pc EXCEPT ![p] = "begin"]
    /\ UNCHANGED <<shared, locals, outs>>

NextCompose ==
    \E p \in Procs : StartCompose(p) \/ PlanCompose(p) \/ EmitComposed(p)

SpecCompose == Init /\ [][NextCompose]_vars

(***************************************************************************)
(* Operation ids: plan add-column --append writes the plan file, and plan  *)
(* compose --out merges plan files, the operations carrying their op_id.   *)
(***************************************************************************)
\* the values of f"op_{uuid.uuid4().hex[:6]}": 24 random bits, so two calls
\* may return the same id
OpIds == {"op_1a2b3c", "op_4d5e6f"}

\* Operation(op_id=..., type="table.add_column", table=, name=, value=)
IdOp(op_id, table, name) ==
    [op_id |-> op_id, type |-> "table.add_column", table |-> table, sheet |-> None,
     name |-> name, formula |-> None, value |-> "y", ref |-> NoRef,
     force_overwrite_formulas |-> FALSE]

\* plan_add_column with --append: the plan file is loaded or created, the
\* operation and its precondition are appended, the file is written
PlanAddColumn(p) ==
    /\ pc[p] = "begin"
    /\ kind[p] = "plan.add_column"
    /\ \E id \in OpIds :
         LET plan == IF plan_out = NoPlanFile
                     THEN PlanFile(Book, fingerprint(disk), <<>>) ELSE plan_out
         IN plan_out' = [plan EXCEPT
                           !.operations = Append(@, IdOp(id, args[p].table, args[p].name)),
                           !.preconditions =
                               Append(@, Precondition("table_exists", None, args[p].table, None))]
    /\ pc' = [pc EXCEPT ![p] = "emit"]
    /\ UNCHANGED <<shared, kind, args, locals, stdout, exits>>

\* the success envelope of plan_add_column
EmitPlanned(p) ==
    /\ pc[p] = "emit"
    /\ kind[p] = "plan.add_column"
    /\ emit(p, success_envelope("plan.add_column", plan_out))
    /\ UNCHANGED <<shared, kind, args, locals>>

\* the second invocation starts after the first has ended; plan compose is
\* given the plan file written so far, once or several times
StartOpIds(p) ==
    /\ pc[p] = "idle"
    /\ p # Main => pc[Main] = "done"
    /\ \/ /\ kind' = [kind EXCEPT ![p] = "plan.add_column"]
          /\ \E n \in {"Margin", "Extra"} :
               args' = [args EXCEPT ![p] = [DefaultArgs EXCEPT !.table = "Sales", !.name = n,
                                                               !.out = TRUE]]
       \/ /\ plan_out # NoPlanFile
          /\ kind' = [kind EXCEPT ![p] = "plan.compose"]
          /\ \E ps \in SeqsUpTo({plan_out}, MaxPlans) \ {<<>>}, o \in BOOLEAN :
               args' = [args EXCEPT ![p] = [DefaultArgs EXCEPT !.plans = ps, !.out = o]]
    /\ pc' = [pc EXCEPT ![p] = "begin"]
    /\ UNCHANGED <<shared, locals, outs>>

NextOpIds ==
    \E p \in Procs :
      \/ StartOpIds(p)
      \/ PlanAddColumn(p)
      \/ EmitPlanned(p)
      \/ PlanCompose(p)
      \/ EmitComposed(p)

SpecOpIds == Init /\ [][NextOpIds]_vars

(***************************************************************************)
(* Backed-up mutations one after the other: each invocation starts when    *)
(* the one before it has ended, within the same second of the wall clock   *)
(* or a later one.                                                         *)
(***************************************************************************)
BackupTargets ==
    { [has_sheet |-> TRUE, sheet |-> "Revenue", ref |-> A1(2, 1), force |-> FALSE],
      [has_sheet |-> TRUE, sheet |-> "Summary", ref |-> A1(1, 2), force |-> TRUE] }

StartBackup(p) ==
    /\ pc[p] = "idle"
    /\ p # Main => pc[Main] \in {"done", "raised"}
    /\ kind' = [kind EXCEPT ![p] = "cell.set"]
    /\ \E t \in BackupTargets, v \in {"y", "z"}, sf \in SaveFlags :
         args' = [args EXCEPT ![p] = CellSet(t, v, sf)]
    /\ pc' = [pc EXCEPT ![p] = "begin"]
    /\ UNCHANGED <<shared, locals, outs>>

NextBackup ==
    \/ Tick
    \/ \E p \in Procs :
         \/ StartBackup(p)
         \/ LoadFingerprint(p)
         \/ LoadWorkbook(p)
         \/ CellSetOp(p)
         \/ Backup(p)
         \/ WriteTmp(p)
         \/ Move(p)
         \/ CopyFinish(p)
         \/ EmitSuccess(p)

SpecBackup == Init /\ [][NextBackup]_vars

(***************************************************************************)
(* WorkbookLock on its own: both processes enter the lock, with or without *)
(* a timeout.  A process that runs keeps running, and time passes while a  *)
(* waiter sleeps; a holder may stay in the body of its with statement for  *)
(* ever.                                                                   *)
(***************************************************************************)
StartLock(p) ==
    /\ pc[p] = "idle"
    /\ kind' = [kind EXCEPT ![p] = "holder"]
    /\ \E a \in HolderArgs : args' = [args EXCEPT ![p] = a]
    /\ pc' = [pc EXCEPT ![p] = "begin"]
    /\ UNCHANGED <<shared, locals, outs>>

NextLock ==
    \/ Tick
    \/ \E p \in Procs :
         \/ StartLock(p)
         \/ LockEnter(p)
         \/ LockPoll(p)
         \/ LockSleep(p)
         \/ LockExit(p)

SpecLock ==
    /\ Init /\ [][NextLock]_vars
    /\ \A p \in Procs : WF_vars(LockPoll(p)) /\ WF_vars(LockSleep(p))

(***************************************************************************)
(* xl wb lock-status beside WorkbookLock: an invocation enters the lock or *)
(* probes it with check_lock; when a lock holder has ended, a later        *)
(* invocation starts.  Time passes by Tick alone.                          *)
(***************************************************************************)
\* the status dict of check_lock
LockStatus(locked, holder) == [exists |-> TRUE, locked |-> locked, holder |-> holder]

\* check_lock: portalocker.lock(fd, LOCK_EX | LOCK_NB) on the sidecar
probe_lock(owner, p) == IF CanLock(owner) THEN p ELSE owner

StartProbe(p) ==
    /\ pc[p] = "idle"
    /\ kind' = [kind EXCEPT ![p] = "wb.lock_status"]
    /\ args' = [args EXCEPT ![p] = DefaultArgs]
    /\ pc' = [pc EXCEPT ![p] = "begin"]
    /\ UNCHANGED <<shared, locals, outs>>

\* check_lock up to portalocker.lock: without a sidecar the answer is
\* unlocked; with one, the probe opens it and tries the exclusive lock, and
\* a LockException makes it read the holder from the file
ProbeLock(p) ==
    /\ pc[p] = "begin"
    /\ kind[p] = "wb.lock_status"
    /\ IF ~lock_exists
       THEN /\ emit(p, success_envelope("wb.lock_status", LockStatus(FALSE, None)))
            /\ UNCHANGED lock_owner
       ELSE /\ lock_owner' = probe_lock(lock_owner, p)
            /\ IF probe_lock(lock_owner, p) = lock_owner /\ ~CanLock(lock_owner)
               THEN emit(p, success_envelope("wb.lock_status", LockStatus(TRUE, lock_pid)))
               ELSE /\ pc' = [pc EXCEPT ![p] = "probe_locked"]
                    /\ UNCHANGED outs
    /\ UNCHANGED <<platform, clock, disk, backups, tmp, lock_exists, lock_pid,
                   kind, args, locals>>

\* portalocker.unlock(fd), fd.close(), and the answer is unlocked
ProbeUnlock(p) ==
    /\ pc[p] = "probe_locked"
    /\ lock_owner' = unlock(lock_owner, p)
    /\ emit(p, success_envelope("wb.lock_status", LockStatus(FALSE, None)))
    /\ UNCHANGED <<platform, clock, disk, backups, tmp, lock_exists, lock_pid,
                   kind, args, locals>>

\* a lock holder has ended and a later invocation starts
NextInvocation(p) ==
    /\ pc[p] \in {"done", "raised", "blocked"}
    /\ kind[p] = "holder"
    /\ pc' = [pc EXCEPT ![p] = "idle"]
    /\ UNCHANGED <<shared, kind, args, locals, outs>>

NextProbe ==
    \/ Tick
    \/ \E p \in Procs :
         \/ StartLock(p)
         \/ StartProbe(p)
         \/ LockEnter(p)
         \/ LockPoll(p)
         \/ LockExit(p)
         \/ ProbeLock(p)
         \/ ProbeUnlock(p)
         \/ NextInvocation(p)

SpecProbe == Init /\ [][NextProbe]_vars

(***************************************************************************)
(* Relative fill: _adjust_formula_refs rewrites the A1-style references of *)
(* a formula, which is a sequence of characters.                           *)
(***************************************************************************)
Upper ==
    <<"A","B","C","D","E","F","G","H","I","J","K","L","M",
      "N","O","P","Q","R","S","T","U","V","W","X","Y","Z">>

Digits == <<"0","1","2","3","4","5","6","7","8","9">>

\* the class [A-Za-z0-9_] of the lookbehind
WordChars ==
    Range(Upper) \cup Range(Digits) \cup {"_"}
    \cup {"a","b","c","d","e","f","g","h","i","j","k","l","m",
          "n","o","p","q","r","s","t","u","v","w","x","y","z"}

\* the exception get_column_letter raises, as the outcome of the rewrite
InvalidColumnIndex == <<"ValueError: Invalid column index">>

\* _adjust_match(m, row_delta, col_delta): the groups are sequences of
\* characters, col_abs and row_abs being <<"$">> or <<>>
adjust_match(col_abs, col_letters, row_abs, row_num, row_delta, col_delta) ==
    LET IndexOf(seq, c) == CHOOSE k \in 1..Len(seq) : seq[k] = c
        \* openpyxl column_index_from_string: a bijective base-26 number
        RECURSIVE column_index_from_string(_)
        column_index_from_string(letters) ==
            IF letters = <<>> THEN 0
            ELSE 26 * column_index_from_string(SubSeq(letters, 1, Len(letters) - 1))
                 + IndexOf(Upper, letters[Len(letters)])
        \* openpyxl get_column_letter: defined for 1..18278 (A..ZZZ)
        RECURSIVE ColumnLetters(_)
        ColumnLetters(idx) ==
            IF idx = 0 THEN <<>>
            ELSE ColumnLetters((idx - 1) \div 26) \o << Upper[((idx - 1) % 26) + 1] >>
        get_column_letter(idx) ==
            IF idx < 1 \/ idx > 18278 THEN InvalidColumnIndex ELSE ColumnLetters(idx)
        \* int(row_num)
        RECURSIVE ParseInt(_)
        ParseInt(digits) ==
            IF digits = <<>> THEN 0
            ELSE 10 * ParseInt(SubSeq(digits, 1, Len(digits) - 1))
                 + (IndexOf(Digits, digits[Len(digits)]) - 1)
        \* str(new_row) for new_row >= 1
        RECURSIVE FormatInt(_)
        FormatInt(n) ==
            IF n < 10 THEN << Digits[n + 1] >>
            ELSE FormatInt(n \div 10) \o << Digits[(n % 10) + 1] >>
        col_idx == column_index_from_string(col_letters) + col_delta
        letters == IF col_abs # <<"$">> /\ col_delta # 0
                   THEN get_column_letter(IF col_idx < 1 THEN 1 ELSE col_idx)
                   ELSE col_letters
        new_row == ParseInt(row_num) + row_delta
        num == IF row_abs # <<"$">> /\ row_delta # 0
               THEN FormatInt(IF new_row < 1 THEN 1 ELSE new_row)
               ELSE row_num
    IN IF letters = InvalidColumnIndex THEN InvalidColumnIndex
       ELSE col_abs \o letters \o row_abs \o num

\* _CELL_REF_RE.sub(lambda m: _adjust_match(m, ...), s) from position i on.
\* The pattern tried at position i is
\*   (?<![A-Za-z0-9_])(\$?)([A-Z]{1,3})(\$?)(\d+)(?![A-Za-z0-9_(])
\* Its quantifiers are greedy and no shorter choice can match, so the match
\* is decided by the longest runs of letters and of digits.
RECURSIVE CellRefSub(_, _, _, _)
CellRefSub(s, i, row_delta, col_delta) ==
    LET RECURSIVE RunLength(_, _)
        RunLength(k, class) ==
            IF k <= Len(s) /\ s[k] \in class THEN 1 + RunLength(k + 1, class) ELSE 0
        a == IF i <= Len(s) /\ s[i] = "$" THEN 1 ELSE 0
        ls == i + a
        nl == RunLength(ls, Range(Upper))
        j == ls + nl
        b == IF j <= Len(s) /\ s[j] = "$" THEN 1 ELSE 0
        ds == j + b
        nd == RunLength(ds, Range(Digits))
        e == ds + nd
        found == /\ (i = 1 \/ s[i - 1] \notin WordChars)
                 /\ nl \in 1..3
                 /\ nd >= 1
                 /\ (e > Len(s) \/ s[e] \notin WordChars \cup {"("})
    IN IF i > Len(s) THEN <<>>
       ELSE IF found
       THEN LET repl == adjust_match(SubSeq(s, i, i + a - 1), SubSeq(s, ls, j - 1),
                                     SubSeq(s, j, j + b - 1), SubSeq(s, ds, e - 1),
                                     row_delta, col_delta)
                rest == CellRefSub(s, e, row_delta, col_delta)
            IN IF repl = InvalidColumnIndex \/ rest = InvalidColumnIndex
               THEN InvalidColumnIndex ELSE repl \o rest
       ELSE LET rest == CellRefSub(s, i + 1, row_delta, col_delta)
            IN IF rest = InvalidColumnIndex THEN InvalidColumnIndex ELSE << s[i] >> \o rest

\* a rewrite that treats every segment as outside a string literal
OutsideLiteral_always(i) == TRUE

\* "for i in range(0, len(parts), 2)": the segments with an even index of the
\* code, which are the odd positions of a sequence
OutsideLiteral(i) == i % 2 = 1

\* _adjust_formula_refs(formula, row_delta, col_delta)
_adjust_formula_refs(formula, row_delta, col_delta) ==
    LET \* formula.split('"')
        RECURSIVE SplitQuotes(_)
        SplitQuotes(s) ==
            IF \A k \in 1..Len(s) : s[k] # "\""
            THEN << s >>
            ELSE LET q == CHOOSE k \in 1..Len(s) :
                            s[k] = "\"" /\ \A h \in 1..(k - 1) : s[h] # "\""
                 IN << SubSeq(s, 1, q - 1) >> \o SplitQuotes(SubSeq(s, q + 1, Len(s)))
        \* '"'.join(parts)
        RECURSIVE JoinQuotes(_)
        JoinQuotes(ps) ==
            IF Len(ps) = 1 THEN ps[1] ELSE ps[1] \o << "\"" >> \o JoinQuotes(Tail(ps))
        parts == SplitQuotes(formula)
        done == [i \in 1..Len(parts) |->
                   IF OutsideLiteral(i) THEN CellRefSub(parts[i], 1, row_delta, col_delta)
                   ELSE parts[i]]
    IN IF \E i \in 1..Len(parts) : done[i] = InvalidColumnIndex
       THEN InvalidColumnIndex ELSE JoinQuotes(done)

\* a formula as the user writes it: references with their $ markers, held by
\* column and row number, between pieces of other text
Ref(col_abs, col, row_abs, row) ==
    [t |-> "ref", col_abs |-> col_abs, col |-> col, row_abs |-> row_abs, row |-> row,
     chars |-> <<>>]

Text(chars) ==
    [t |-> "text", col_abs |-> FALSE, col |-> 0, row_abs |-> FALSE, row |-> 0, chars |-> chars]

\* a double-quoted string literal with this content
Literal(chars) ==
    [t |-> "literal", col_abs |-> FALSE, col |-> 0, row_abs |-> FALSE, row |-> 0,
     chars |-> chars]

FillRefs ==
    { Ref(ca, c, ra, r) : ca \in BOOLEAN, c \in {1, 26, 27}, ra \in BOOLEAN, r \in {1, 2, 10} }

FillFormulas ==
    { << Text(<<"=">>), r >> : r \in FillRefs }
    \cup { << Text(<<"=","I","F","(">>), r, Text(<<">","0",",">>), Literal(<<"A","1">>),
              Text(<<",">>), Ref(FALSE, 2, FALSE, 1), Text(<<")">>) >> : r \in FillRefs }
    \cup { << Text(<<"=">>), Literal(<<"$","B","2",":">>), Text(<<"&">>), r >> : r \in FillRefs }
    \cup { << Text(<<"=","R","e","v","e","n","u","e","!">>), r,
              Text(<<"+","L","O","G","1","0","(">>), Ref(TRUE, 1, TRUE, 1), Text(<<")">>) >> :
             r \in FillRefs }
    \cup { << Text(<<"=","S","U","M","(">>), r, Text(<<":">>), r2, Text(<<")">>) >> :
             r \in FillRefs,
             r2 \in { Ref(FALSE, 1, TRUE, 1), Ref(TRUE, 2, FALSE, 2), Ref(FALSE, 3, FALSE, 3) } }

\* the column letters and the row digits as the user writes them, for the
\* columns A..AZ and the rows 1..99
WrittenColumn(col) == IF col <= 26 THEN << Upper[col] >> ELSE << "A", Upper[col - 26] >>

WrittenRow(row) ==
    IF row <= 9 THEN << Digits[row + 1] >> ELSE << Digits[(row \div 10) + 1], Digits[(row % 10) + 1] >>

WrittenToken(tok) ==
    IF tok.t = "ref"
    THEN (IF tok.col_abs THEN <<"$">> ELSE <<>>) \o WrittenColumn(tok.col)
         \o (IF tok.row_abs THEN <<"$">> ELSE <<>>) \o WrittenRow(tok.row)
    ELSE IF tok.t = "literal" THEN << "\"" >> \o tok.chars \o << "\"" >>
    ELSE tok.chars

RECURSIVE Written(_)
Written(tokens) ==
    IF tokens = <<>> THEN <<>> ELSE WrittenToken(Head(tokens)) \o Written(Tail(tokens))

FillArgs ==
    { [DefaultArgs EXCEPT !.formula = Written(f), !.row_delta = dr, !.col_delta = dc] :
        f \in FillFormulas, dr \in (0 - MaxShift)..MaxShift, dc \in (0 - MaxShift)..MaxShift }

\* formula_set in fill mode "relative" reaches a cell of its range
StartFill(p) ==
    /\ pc[p] = "idle"
    /\ p = Main
    /\ kind' = [kind EXCEPT ![p] = "formula.set"]
    /\ \E a \in FillArgs : args' = [args EXCEPT ![p] = a]
    /\ pc' = [pc EXCEPT ![p] = "begin"]
    /\ UNCHANGED <<shared, locals, outs>>

\* adjusted = _adjust_formula_refs(formula, row - min_row, col - min_col)
AdjustFormulaRefs(p) ==
    /\ pc[p] = "begin"
    /\ kind[p] = "formula.set"
    /\ results' = [results EXCEPT ![p] =
           << _adjust_formula_refs(args[p].formula, args[p].row_delta, args[p].col_delta) >>]
    /\ pc' = [pc EXCEPT ![p] = "done"]
    /\ UNCHANGED <<shared, kind, args, ctx, fp_before, fp_after, backup_path, changes, op_i,
                   deadline, mutated, outs>>

NextFill == \E p \in Procs : StartFill(p) \/ AdjustFormulaRefs(p)

SpecFill == Init /\ [][NextFill]_vars

(***************************************************************************)
(* Properties.                                                             *)
(***************************************************************************)
Mutating(p) == kind[p] \in {"apply", "cell.set"}

\* the invocation got past its argument checks and found the workbook
WellFormed(p) ==
    /\ args[p].file = Book
    /\ kind[p] = "apply" => args[p].plan.valid
    /\ kind[p] = "cell.set" => args[p].has_sheet

\* the process has loaded the workbook into its context
Loaded(p) == ctx[p].fp # NoFingerprint /\ ctx[p].wb # NoCtx.wb

\* the process printed exactly this envelope and exited with this code
Answered(p, env, code) ==
    /\ pc[p] = "done"
    /\ stdout[p] = <<env>>
    /\ exits[p] = <<code>>

\* the process has written no file since it started
WroteNothing(p) ==
    /\ backup_path[p] = NoBackup
    /\ p \notin DOMAIN tmp
    /\ fp_after[p] = NoFingerprint

\* C1: an invocation that is writing the workbook file (its save is between
\* the temporary file and the end of the move over the workbook) holds the
\* exclusive lock on the sidecar.
C1_WriterHoldsLock ==
    \A p \in Procs : pc[p] \in {"move", "copy"} => lock_owner = p

\* C2: when another process holds the sidecar lock, a mutating command that
\* is started on an existing workbook with well-formed arguments takes its
\* first step by ending with ok=false, ERR_LOCK_HELD and exit code 50; it does
\* not go on to load the workbook.
C2_LockHeldBlocksMutation ==
    [][\A p \in Procs :
         ( /\ Mutating(p) /\ WellFormed(p)
           /\ pc[p] = "begin" /\ pc'[p] # "begin"
           /\ lock_owner \notin {NoProc, p} )
         => /\ pc'[p] = "done"
            /\ stdout'[p] = << error_envelope(kind[p], "ERR_LOCK_HELD", None) >>
            /\ exits'[p] = << 50 >>
            /\ disk' = disk]_vars

\* C3: no step of an invocation run with --dry-run changes the workbook
\* file or the backup files, so the file's fingerprint is the same before and
\* after it, and a finished dry run reports no backup.
C3_DryRunPurity ==
    /\ [][\A p \in Procs :
            (args[p].dry_run /\ pc'[p] # pc[p])
            => (disk' = disk /\ backups' = backups /\ fingerprint(disk') = fingerprint(disk))]_vars
    /\ [](\A p \in Procs : (args[p].dry_run /\ pc[p] = "done") => WroteNothing(p))

C3_Witness ==
    /\ kind[Main] = "apply" /\ args[Main].dry_run /\ args[Main].backup
    /\ pc[Main] = "done" /\ Len(stdout[Main]) = 1 /\ stdout[Main][1].ok
    /\ Len(changes[Main]) = 2
    /\ ctx[Main].wb # disk.wb

\* C4: an apply whose plan carries a fingerprint F0 with
\* fail_on_external_change, and which finds on load a workbook whose bytes
\* have another fingerprint, ends with ok=false, ERR_PLAN_FINGERPRINT_CONFLICT
\* with details {expected, actual} and exit code 40, having invoked no
\* operation and written nothing.
C4_FingerprintConflict ==
    \A p \in Procs :
      ( /\ kind[p] = "apply" /\ Loaded(p)
        /\ pc[p] \notin {"idle", "begin", "load_wb", "validate"}
        /\ args[p].plan.target.fingerprint # NoFingerprint
        /\ args[p].plan.options.fail_on_external_change
        /\ args[p].plan.target.fingerprint # ctx[p].fp )
      => /\ Answered(p, error_envelope("apply", "ERR_PLAN_FINGERPRINT_CONFLICT",
                                       [expected |-> args[p].plan.target.fingerprint,
                                        actual |-> ctx[p].fp]), 40)
         /\ op_i[p] = 0 /\ changes[p] = <<>>
         /\ WroteNothing(p)

C4_Witness ==
    /\ kind[Main] = "apply" /\ pc[Main] = "done"
    /\ Len(args[Main].plan.operations) = 1
    /\ stdout[Main] # <<>> /\ ~stdout[Main][1].ok
    /\ stdout[Main][1].errors[1].code = "ERR_PLAN_FINGERPRINT_CONFLICT"
    /\ fingerprint(disk) # args[Main].plan.target.fingerprint

\* C5: at every instant the workbook file holds complete contents, so that a
\* reader opening it never sees a partially written file.
C5_NeverTorn == ~disk.torn

\* the code of the only error of an envelope
ErrorCode(env) == env.errors[1].code

\* the process ended with exactly one envelope, an error with this code
Failed(p, code) ==
    /\ pc[p] = "done"
    /\ Len(stdout[p]) = 1
    /\ ~stdout[p][1].ok
    /\ stdout[p][1].errors # <<>>
    /\ ErrorCode(stdout[p][1]) = code

\* C6: apply invokes the operations of the plan in declared order (the i-th
\* change record comes from the i-th operation, and each step of the loop
\* invokes the operation after the last one invoked); the step on which an
\* operation fails ends apply with ERR_OPERATION_FAILED, appends no change,
\* and neither that step nor any earlier step of this apply has written the
\* workbook, a temporary file or a backup.
C6_StopAtFirstFailure ==
    /\ [](\A p \in Procs :
            kind[p] = "apply" =>
              /\ Len(changes[p]) <= op_i[p]
              /\ op_i[p] <= Len(args[p].plan.operations)
              /\ \A k \in 1..Len(changes[p]) :
                   changes[p][k].type = args[p].plan.operations[k].type)
    /\ [][\A p \in Procs :
            (kind[p] = "apply" /\ op_i'[p] # op_i[p])
            => LET r == apply_op(ctx[p].wb, args[p].plan.operations[op_i[p] + 1])
               IN /\ op_i'[p] = op_i[p] + 1
                  /\ Len(changes[p]) = op_i[p]
                  /\ WroteNothing(p)
                  /\ IF r.ok
                     THEN /\ changes'[p] = Append(changes[p], r.change)
                          /\ stdout'[p] = <<>>
                     ELSE /\ pc'[p] = "done"
                          /\ stdout'[p] = << error_envelope("apply", "ERR_OPERATION_FAILED", None) >>
                          /\ Len(exits'[p]) = 1
                          /\ changes'[p] = changes[p]
                          /\ disk' = disk /\ backups' = backups /\ tmp' = tmp
                          /\ backup_path'[p] = NoBackup /\ fp_after'[p] = NoFingerprint]_vars

C6_Witness ==
    /\ kind[Main] = "apply"
    /\ Failed(Main, "ERR_OPERATION_FAILED")
    /\ op_i[Main] = 2 /\ Len(changes[Main]) = 1
    /\ ~args[Main].dry_run /\ args[Main].backup
    /\ disk = InitContent /\ backups = <<>>

\* the invocation is over
Ended(p) == pc[p] \in {"done", "raised", "blocked"}

ValidationFails(p) ==
    /\ kind[p] = "apply" /\ Loaded(p)
    /\ pc[p] \notin {"idle", "begin", "load_wb", "validate"}
    /\ op_i[p] = 0
    /\ ~validate_plan(ctx[p], args[p].plan).valid

\* apply answered ERR_VALIDATION_FAILED with the checks, one of them failed,
\* in the details, invoked no operation and wrote nothing
ValidationRefused(p) ==
    /\ Failed(p, "ERR_VALIDATION_FAILED")
    /\ stdout[p][1].errors[1].details.checks = validate_plan(ctx[p], args[p].plan).checks
    /\ \E k \in DOMAIN stdout[p][1].errors[1].details.checks :
         ~stdout[p][1].errors[1].details.checks[k].passed
    /\ exits[p] = << 10 >>
    /\ changes[p] = <<>>
    /\ WroteNothing(p)

\* C8 as stated: whenever a validator check fails for the plan, apply returns
\* ERR_VALIDATION_FAILED with the failed checks in the details, invokes no
\* operation and writes neither the workbook nor a backup.
C8_AnyFailedCheck ==
    \A p \in Procs : ValidationFails(p) => ValidationRefused(p)

\* C8 amended: the same, for a plan whose fingerprint check does not fail (the
\* plan names no fingerprint, or fail_on_external_change is off, or the
\* fingerprint is that of the loaded file); a plan whose fingerprint check
\* fails is answered with ERR_PLAN_FINGERPRINT_CONFLICT.
C8_FailedCheckNoConflict ==
    \A p \in Procs :
      ValidationFails(p) =>
        IF \/ args[p].plan.target.fingerprint = NoFingerprint
           \/ ~args[p].plan.options.fail_on_external_change
           \/ args[p].plan.target.fingerprint = ctx[p].fp
        THEN ValidationRefused(p)
        ELSE Failed(p, "ERR_PLAN_FINGERPRINT_CONFLICT") /\ changes[p] = <<>> /\ WroteNothing(p)

C8_Witness ==
    /\ ValidationFails(Main)
    /\ Failed(Main, "ERR_VALIDATION_FAILED")
    /\ ~args[Main].dry_run /\ args[Main].backup
    /\ Len(args[Main].plan.operations) > 0

\* C9: when an apply with backup and without dry_run reports success, the
\* backup_path it returns names an existing file whose fingerprint is the
\* fingerprint_before it returns.
C9_BackupHoldsPreApplyBytes ==
    [][\A p \in Procs :
         ( /\ kind[p] = "apply" /\ args[p].backup /\ ~args[p].dry_run
           /\ pc[p] = "emit" /\ pc'[p] = "done" )
         => /\ stdout'[p][1].result.backup_path \in DOMAIN backups
            /\ fingerprint(backups[stdout'[p][1].result.backup_path])
                 = stdout'[p][1].result.fingerprint_before]_vars

\* C10: an invocation of a command that has ended has printed exactly one
\* envelope and returned exactly one exit code; before that it has printed
\* nothing and returned nothing.
C10_OneEnvelopeOneExit ==
    \A p \in Procs :
      IF Cli(p) /\ pc[p] = "done"
      THEN Len(stdout[p]) = 1 /\ Len(exits[p]) = 1
      ELSE stdout[p] = <<>> /\ exits[p] = <<>>

C10_Witness ==
    /\ Failed(Main, "ERR_WORKBOOK_NOT_FOUND") /\ exits[Main] = << 50 >>
    /\ \E p \in Procs : p # Main /\ pc[p] = "done" /\ Len(stdout[p]) = 1 /\ stdout[p][1].ok

\* the rules of the exit-code table in priority order: a rule matches a code
\* that contains one of its markers or begins with one of its prefixes
ExitRule(markers, prefixes, exit) == [markers |-> markers, prefixes |-> prefixes, exit |-> exit]

ExitRules ==
    << ExitRule({ <<"P","R","O","T","E","C","T","E","D">> }, {}, 20),
       ExitRule({ <<"F","O","R","M","U","L","A">> }, {}, 30),
       ExitRule({ <<"F","I","N","G","E","R","P","R","I","N","T">>,
                  <<"C","O","N","F","L","I","C","T">> }, {}, 40),
       ExitRule({ <<"U","N","S","U","P","P","O","R","T","E","D">> }, {}, 70),
       ExitRule(VALIDATION_CODE_MARKERS, {}, 10),
       ExitRule(IO_CODE_MARKERS \cup { <<"N","O","T","_","F","O","U","N","D">>,
                                       <<"C","O","R","R","U","P","T">>,
                                       <<"L","O","C","K">> },
                { <<"E","R","R","_","I","O">> }, 50),
       ExitRule({ <<"R","E","C","A","L","C">> }, {}, 60) >>

RuleMatches(rule, code) ==
    \/ \E m \in rule.markers : Contains(code, m)
    \/ \E q \in rule.prefixes : StartsWith(code, q)

\* the exit code of the first rule that matches, 90 when none does
FirstMatch(code) ==
    LET hits == { i \in DOMAIN ExitRules : RuleMatches(ExitRules[i], code) }
    IN IF hits = {} THEN 90
       ELSE ExitRules[CHOOSE i \in hits : \A j \in hits : i <= j].exit

RuleExit(env) ==
    IF env.ok THEN 0
    ELSE IF env.errors = <<>> THEN 90
    ELSE FirstMatch(CodeChars[env.errors[1].code])

C12_FileExistsLastSheetAreValidation ==
    \A p \in Procs :
      ( /\ pc[p] = "done" /\ Len(stdout[p]) = 1 /\ ~stdout[p][1].ok
        /\ stdout[p][1].errors # <<>>
        /\ ErrorCode(stdout[p][1]) \in {"ERR_FILE_EXISTS", "ERR_LAST_SHEET"} )
      => exits[p] = << 10 >>


\* C13: a mutating command on a table that does not exist answers
\* ERR_TABLE_NOT_FOUND, or ERR_COLUMN_NOT_FOUND for a column that does not
\* exist, and the process exits with code 10.
C13_TableNotFoundExits10 ==
    \A p \in Procs :
        (Ended(p) /\ kind[p] \in {"table.add_column", "table.append_rows"}
           /\ Loaded(p) /\ find_table(ctx[p].wb, args[p].table) = NoTable)
        => /\ Failed(p, "ERR_TABLE_NOT_FOUND")
           /\ exits[p] = <<10>>


\* C14: every envelope printed with ok = false carries at least one error,
\* for every command, run of a workflow with a failing step included.
C14_FailureCarriesErrors ==
    \A p \in Procs : \A k \in 1..Len(stdout[p]) :
        ~stdout[p][k].ok => stdout[p][k].errors # <<>>


\* C15: a read-only command (wb inspect) never touches the sidecar lock, and
\* one that finds the workbook ends with ok = true and exit code 0 although
\* another process holds the lock while it loads the workbook.
C15_ReadersIgnoreLock ==
    /\ [][\A p \in Procs :
            (kind[p] = "wb.inspect" /\ pc'[p] # pc[p])
            => UNCHANGED <<lock_exists, lock_owner, lock_pid>>]_vars
    /\ [][\A p \in Procs :
            ( /\ kind[p] = "wb.inspect" /\ args[p].file = Book
              /\ lock_owner \notin {NoProc, p}
              /\ pc'[p] # pc[p] )
            => /\ pc'[p] \in {"load_wb", "emit", "done"}
               /\ pc'[p] = "done"
                    => /\ stdout'[p] = << success_envelope("wb.inspect", [fingerprint |-> ctx[p].fp]) >>
                       /\ exits'[p] = << 0 >>]_vars

\* an inspect that loaded the workbook while the other process held the
\* lock, and ended with ok = true while the lock is still held
C15_Witness ==
    \E p \in Procs :
        /\ kind[p] = "wb.inspect" /\ pc[p] = "done"
        /\ Len(stdout[p]) = 1 /\ stdout[p][1].ok /\ exits[p] = << 0 >>
        /\ lock_owner \notin {NoProc, p}
        /\ lock_pid = lock_owner
        /\ ctx[p].fp = fingerprint(disk)


\* C16: a workflow run starts to write the workbook only when a step has
\* changed the in-memory model (no other process writes, so the file still
\* holds the model the run loaded), and a run that ends with the model it
\* loaded leaves the file byte-identical.
C16_SaveOnlyIfMutated ==
    \A p \in Procs :
        kind[p] = "run"
        => /\ pc[p] = "save" => ctx[p].wb # disk.wb
           /\ (pc[p] = "done" /\ Loaded(p) /\ ctx[p].wb = InitWb) => disk = InitContent


\* the workflow of a run has left the loop over its steps
LoopLeft(p) == kind[p] = "run" /\ Loaded(p) /\ pc[p] \in {"save", "move", "copy", "emit", "done"}

\* C17: the steps of a workflow execute in declared order (the k-th result
\* is the one of the k-th step, and each iteration handles the step after
\* the last one handled); with stop_on_error no step after the first step
\* that is not ok gets executed; without it every step is executed, whatever
\* failed before.
C17_StepsInOrderStopOnError ==
    /\ [](\A p \in Procs :
            kind[p] = "run"
            => LET steps == args[p].workflow.steps
                   stop == args[p].workflow.defaults.stop_on_error
               IN /\ Len(results[p]) <= Len(steps)
                  /\ \A k \in 1..Len(results[p]) :
                        results[p][k].step_id = k /\ results[p][k].run = steps[k].run
                  /\ stop => \A k \in 1..(Len(results[p]) - 1) : results[p][k].ok
                  /\ LoopLeft(p)
                       => IF stop /\ \E k \in 1..Len(results[p]) : ~results[p][k].ok
                          THEN ~results[p][Len(results[p])].ok
                          ELSE Len(results[p]) = Len(steps))
    /\ [][\A p \in Procs :
            results'[p] # results[p]
            => /\ Len(results'[p]) = Len(results[p]) + 1
               /\ \A k \in 1..Len(results[p]) : results'[p][k] = results[p][k]]_vars

\* a run with stop_on_error that ended after its first step failed and left
\* the second step out
C17_Witness ==
    /\ pc[Main] = "done" /\ kind[Main] = "run"
    /\ args[Main].workflow.defaults.stop_on_error
    /\ Len(args[Main].workflow.steps) = 2
    /\ Len(results[Main]) = 1
    /\ ~results[Main][1].ok
    /\ results[Main][1].error # None


\* the row list has a row that the strict schema check of the table rejects
HasBadRow(wb, table_name, rows) ==
    LET tbl == find_table(wb, table_name)
    IN /\ tbl # NoTable
       /\ \E i \in 1..Len(rows) :
             RowSchemaError(tbl, FormulaCols(wb, tbl), rows[i], "strict") # None

\* C18: table.append_rows in strict mode on a row list with a row that has an
\* undeclared key or lacks a non-formula column fails with
\* ERR_SCHEMA_MISMATCH and changes neither a cell nor the table reference,
\* whatever the other rows of the list are.
C18_StrictAppendAddsNothing ==
    [][\A p \in Procs :
         ( /\ kind[p] = "table.append_rows" /\ args[p].schema_mode = "strict"
           /\ pc[p] = "op" /\ pc'[p] # "op"
           /\ HasBadRow(ctx[p].wb, args[p].table, args[p].rows) )
         => /\ pc'[p] = "done"
            /\ stdout'[p] = << error_envelope("table.append_rows", "ERR_SCHEMA_MISMATCH", None) >>
            /\ ctx'[p].wb = ctx[p].wb]_vars


\* validate plan answered for the plan it was given, whose target
\* fingerprint is the fingerprint of the workbook it loaded
ValidatedCurrent(p) ==
    /\ kind[p] = "validate.plan" /\ pc[p] = "done" /\ Loaded(p)
    /\ args[p].plan.valid
    /\ args[p].plan.target.fingerprint = ctx[p].fp
    /\ Len(stdout[p]) = 1

Applicable(wb, ops, k) ==
    LET op == ops[k] IN
    IF op.type = "table.add_column"
    THEN /\ find_table(wb, op.table) # NoTable
         /\ Casefold[op.name] \notin ExistingNames(wb, find_table(wb, op.table))
         /\ \A j \in 1..(k - 1) :
               ~(ops[j].type = "table.add_column" /\ ops[j].table = op.table
                 /\ Casefold[ops[j].name] = Casefold[op.name])
    ELSE IF op.type = "cell.set"
    THEN op.sheet = "" \/ op.sheet \in Range(wb.sheetnames)
    ELSE TRUE

C20_FormulaCellNeedsForce ==
    [][\A p \in Procs :
         ( /\ kind[p] = "cell.set" /\ pc[p] = "op" /\ pc'[p] # "op"
           /\ args[p].sheet \in Range(ctx[p].wb.sheetnames) /\ args[p].ref.matches
           /\ IsFormula(CellValue(ctx[p].wb, args[p].sheet, args[p].ref.row, args[p].ref.col))
           /\ ~args[p].force_overwrite_formulas )
         => /\ stdout'[p] = << error_envelope("cell.set", "ERR_FORMULA_OVERWRITE_BLOCKED", None) >>
            /\ exits'[p] = << 30 >>
            /\ ctx'[p].wb = ctx[p].wb]_vars


\* the formula with every reference shifted as a relative fill shifts it: an
\* axis with a $ marker stays, any other axis moves by the offset and stops
\* at 1; text and string literals stay as written
ShiftedToken(tok, drow, dcol) ==
    IF tok.t # "ref" THEN tok
    ELSE [tok EXCEPT !.col = IF tok.col_abs THEN @ ELSE (IF @ + dcol < 1 THEN 1 ELSE @ + dcol),
                     !.row = IF tok.row_abs THEN @ ELSE (IF @ + drow < 1 THEN 1 ELSE @ + drow)]

Shifted(tokens, drow, dcol) == [k \in 1..Len(tokens) |-> ShiftedToken(tokens[k], drow, dcol)]

\* C21: the relative-fill rewrite of a formula by an offset (drow, dcol)
\* leaves $A$1 as it is, moves only the row of $A1 and only the column of A$1,
\* moves both axes of any other reference outside double-quoted literals,
\* stopping at row 1 and column 1, and leaves the text inside double-quoted
\* literals as it is.
C21_RelativeFillShiftsByAxis ==
    \A p \in Procs :
      (kind[p] = "formula.set" /\ pc[p] = "done")
      => \A f \in FillFormulas :
           Written(f) = args[p].formula
           => results[p] = << Written(Shifted(f, args[p].row_delta, args[p].col_delta)) >>

\* a fill up and to the left of a formula with a relative reference that is
\* stopped at row 1, and with a string literal, has been rewritten
C21_Witness ==
    /\ kind[Main] = "formula.set" /\ pc[Main] = "done"
    /\ args[Main].row_delta < 0 /\ args[Main].col_delta < 0
    /\ args[Main].formula = Written(<< Text(<<"=">>), Literal(<<"$","B","2",":">>),
                                       Text(<<"&">>), Ref(FALSE, 27, FALSE, 1) >>)
    /\ results[Main] # << args[Main].formula >>

\* C22: a lock acquisition with a timeout does not wait for ever: a waiter
\* ends its wait, holding the lock or with the lock-held error; an attempt
\* made while nobody holds the lock acquires it; and the waiter gives up only
\* when the deadline has passed and the lock is still held.
C22_WaitEndsByDeadline ==
    /\ \A p \in Procs : (pc[p] = "poll") ~> (pc[p] \in {"held", "blocked"})
    /\ [][\A p \in Procs :
            (pc[p] = "poll" /\ pc'[p] # "poll")
            => IF lock_owner = NoProc
               THEN pc'[p] = "held" /\ lock_owner' = p
               ELSE pc'[p] = "blocked" /\ clock >= deadline[p] /\ lock_owner' = lock_owner]_vars

\* a waiter with a timeout found the lock held, waited past its deadline and
\* gave up while the holder still holds the lock
C22_Witness ==
    /\ kind[Main] = "holder" /\ args[Main].timeout > 0
    /\ pc[Main] = "blocked"
    /\ clock >= deadline[Main] /\ deadline[Main] > 0
    /\ lock_owner \in Procs \ {Main}

\* the operation types the loop of apply_cmd dispatches to the engine
Dispatched(type) ==
    type \in {"table.add_column", "table.append_rows", "cell.set", "format.number", "table.create"}

\* C23: when the executor of apply comes to an operation of a type it does
\* not implement, the invocation ends with an error envelope and exit code 70.
C23_UnsupportedOperationExits70 ==
    [][\A p \in Procs :
         ( /\ kind[p] = "apply" /\ pc[p] = "ops" /\ op_i'[p] = op_i[p] + 1
           /\ ~Dispatched(args[p].plan.operations[op_i[p] + 1].type) )
         => /\ pc'[p] = "done"
            /\ exits'[p] = << 70 >>
            /\ Len(stdout'[p]) = 1 /\ ~stdout'[p][1].ok]_vars

\* the plans given to plan compose all load, and two of them name different
\* workbook files as their target
TargetsDiffer(plans) ==
    /\ \A i \in 1..Len(plans) : plans[i].valid
    /\ \E i, j \in 1..Len(plans) : plans[i].target.file # plans[j].target.file

\* C24: plan compose over plans whose targets name different workbook files
\* ends with an error envelope and exit code 40 and writes no composed plan.
C24_ComposeTargetMismatchExits40 ==
    \A p \in Procs :
      (kind[p] = "plan.compose" /\ pc[p] = "done" /\ TargetsDiffer(args[p].plans))
      => /\ exits[p] = << 40 >>
         /\ Len(stdout[p]) = 1 /\ ~stdout[p][1].ok
         /\ plan_out = NoPlanFile

\* C25: an invocation writes the workbook file only when every operation of
\* its plan and every step of its workflow has succeeded: the step that puts
\* new bytes into the file is taken by an invocation none of whose workflow
\* steps failed.
C25_WriteOnlyAfterAllSucceeded ==
    [][\A p \in Procs :
         ( /\ kind[p] = "run" /\ pc[p] \in {"move", "copy"} /\ pc'[p] # pc[p]
           /\ disk' # disk )
         => \A k \in 1..Len(results[p]) : results[p][k].ok]_vars

\* C26: an apply that carries a target fingerprint F0 with
\* fail_on_external_change and goes on to succeed replaces, with the step
\* that completes its save, file content whose fingerprint is F0.
C26_NoExternalWriteOverwritten ==
    [][\A p \in Procs :
         ( /\ kind[p] = "apply"
           /\ args[p].plan.target.fingerprint # NoFingerprint
           /\ args[p].plan.options.fail_on_external_change
           /\ pc[p] = "move" /\ pc'[p] = "fp_after" )
         => fingerprint(disk) = args[p].plan.target.fingerprint]_vars

\* any two tables of the workbook that lie on the same sheet have disjoint
\* rectangles
TablesDisjoint(wb) ==
    \A t, u \in DOMAIN wb.tables :
      (t # u /\ wb.tables[t].sheet = wb.tables[u].sheet)
      => ~Overlaps(wb.tables[t].ref, wb.tables[u].ref)

\* C27: after any sequence of successful table.create, table.add_column and
\* table.append_rows operations, any two tables on the same sheet have
\* disjoint rectangles, in the workbook an invocation holds and in the file.
C27_TablesStayDisjoint ==
    /\ TablesDisjoint(disk.wb)
    /\ \A p \in Procs : Loaded(p) => TablesDisjoint(ctx[p].wb)

\* the exceptions of the Operation Engine for a missing table, a missing
\* sheet, an existing column or table name, and a table-range overlap
StructuralFailures ==
    { "ValueError: Table not found", "KeyError: Sheet not found", "KeyError",
      "ValueError: Column already exists", "ValueError: Table already exists",
      "ValueError: Range overlaps existing table" }

\* C28: whenever the validation of a plan passed, executing its operations
\* in declared order does not fail because of a missing table, a missing
\* sheet, an already existing column or table name, or a table-range
\* overlap: the next operation of an apply that is past validation never
\* raises one of these.
C28_ValidPlanExecutes ==
    \A p \in Procs :
      (kind[p] = "apply" /\ pc[p] = "ops" /\ ~Refused(validate_plan(ctx[p], args[p].plan))
       /\ op_i[p] < Len(args[p].plan.operations))
      => LET r == apply_op(ctx[p].wb, args[p].plan.operations[op_i[p] + 1])
         IN r.ok \/ r.exc \notin StructuralFailures

\* the first invocation was a non-dry-run apply that ended with a success
\* envelope and exit code 0
FirstApplySucceeded ==
    /\ kind[Main] = "apply" /\ pc[Main] = "done" /\ ~args[Main].dry_run
    /\ exits[Main] = <<0>> /\ Len(stdout[Main]) = 1 /\ stdout[Main][1].ok

\* C29: a plan is consumed exactly once: after a successful non-dry-run
\* apply of plan P to the workbook, a later apply of the same P to that
\* workbook invokes none of P's operations.
C29_PlanConsumedOnce ==
    \A p \in Procs :
      (p # Main /\ kind[p] = "apply" /\ FirstApplySucceeded
       /\ args[p].plan = args[Main].plan)
      => op_i[p] = 0

\* sheet.delete is about to act on the only sheet of the workbook a process holds
DeletesOnlySheet(p) ==
    /\ kind[p] = "sheet.delete" /\ pc[p] = "op"
    /\ ctx[p].wb.sheetnames = << args[p].name >>

ColumnsWellFormed(wb) ==
    \A t \in DOMAIN wb.tables :
      LET cols == wb.tables[t].tableColumns
      IN /\ Len(cols) >= 1
         /\ \A i, j \in 1..Len(cols) : Casefold[cols[i]] = Casefold[cols[j]] => i = j

\* a step of the running workflow ended with ok and was executed
StepSucceeded(p) ==
    /\ kind[p] = "run" /\ pc[p] = "step"
    /\ Len(results'[p]) = Len(results[p]) + 1
    /\ results'[p][Len(results'[p])].ok /\ ~results'[p][Len(results'[p])].skipped

\* C31: after any sequence of successful table.create, table.add_column and
\* table.delete_column operations, every table's column list is non-empty
\* and contains no two names that are equal after case folding.
C31_ColumnListsWellFormed ==
    [][ \A p \in Procs :
          (StepSucceeded(p) /\ ColumnsWellFormed(ctx[p].wb)) => ColumnsWellFormed(ctx'[p].wb) ]_vars

\* every table reference is a rectangle with min <= max on both axes whose
\* width is the number of declared columns
RefsWellFormed(wb) ==
    \A t \in DOMAIN wb.tables :
      LET r == wb.tables[t].ref
      IN /\ r.min_row <= r.max_row /\ r.min_col <= r.max_col
         /\ r.max_col - r.min_col + 1 = Len(wb.tables[t].tableColumns)

\* the step a running workflow is about to execute
CurrentStep(p) == args[p].workflow.steps[op_i[p] + 1]

\* C32: after a successful table.add_column, table.delete_column or
\* table.append_rows the table reference is a valid rectangle with
\* min <= max on both axes whose width equals the number of declared
\* columns, and whose height is the header row plus the data rows: appended
\* rows make it that many rows taller.
C32_ReferenceRecomputed ==
    [][ \A p \in Procs :
          ( /\ StepSucceeded(p) /\ RefsWellFormed(ctx[p].wb)
            /\ CurrentStep(p).run \in {"table.add_column", "table.delete_column",
                                       "table.append_rows"} )
          => /\ RefsWellFormed(ctx'[p].wb)
             /\ CurrentStep(p).run = "table.append_rows"
                => LET t == CurrentStep(p).args.table
                   IN ctx'[p].wb.tables[t].ref.max_row
                        = ctx[p].wb.tables[t].ref.max_row + Len(CurrentStep(p).args.rows) ]_vars

\* C33: in the result of an apply, fingerprint_before is the fingerprint of
\* the file content that was loaded and validated, and fingerprint_after is
\* the fingerprint of the file content this invocation's own save produced:
\* the workbook is loaded from the content that was fingerprinted, and the
\* fingerprint taken after the save is that of the workbook this invocation
\* wrote.
C33_FingerprintsOfOwnContent ==
    [][ \A p \in Procs :
          kind[p] = "apply"
          => /\ (pc[p] = "load_wb" /\ pc'[p] = "validate") => ctx[p].fp = fingerprint(disk)
             /\ (pc[p] = "fp_after" /\ pc'[p] = "emit")
                => \E t \in 0..MaxClock : fp_after'[p] = fingerprint(Serialize(ctx[p].wb, t)) ]_vars

\* C34: after a context saves the workbook its fingerprint is re-computed, so
\* a fingerprint reported from that context afterwards, as by wb.inspect on
\* the cached context of the stdio server after a cell.set, equals the
\* fingerprint of the file now on disk.
C34_ReportedFingerprintIsCurrent ==
    [][ \A p \in Procs :
          ( /\ kind[p] = "serve"
            /\ Len(stdout'[p]) = Len(stdout[p]) + 1
            /\ stdout'[p][Len(stdout'[p])].command = "wb.inspect" )
          => stdout'[p][Len(stdout'[p])].result.fingerprint = fingerprint(disk') ]_vars

\* the condition a precondition states, read off the workbook
Holds(wb, pre) ==
    IF pre.type = "sheet_exists" THEN pre.sheet \in Range(wb.sheetnames)
    ELSE IF pre.type = "table_exists" THEN find_table(wb, pre.table) # NoTable
    ELSE IF pre.type = "column_exists"
    THEN /\ find_table(wb, pre.table) # NoTable
         /\ pre.column \in Range(find_table(wb, pre.table).tableColumns)
    ELSE IF pre.type = "cell_not_empty"
    THEN /\ pre.sheet \in Range(wb.sheetnames)
         /\ CellValue(wb, pre.sheet, pre.ref.row, pre.ref.col) # None
    ELSE FALSE

\* C35: every precondition of a plan, of any of the types sheet_exists,
\* table_exists, column_exists, cell_value_equals, cell_not_empty,
\* cell_value_type, table_row_count and table_row_count_gte, is evaluated
\* against the current workbook model: its check passes if and only if the
\* stated condition holds in the workbook.
C35_PreconditionsEvaluated ==
    \A p \in Procs :
      (kind[p] = "validate.plan" /\ pc[p] = "validate_plan")
      => \A k \in 1..Len(args[p].plan.preconditions) :
           LET pre == args[p].plan.preconditions[k]
           IN check_precondition(ctx[p].wb, pre).passed <=> Holds(ctx[p].wb, pre)

\* no two operations of the plan carry the same op_id
UniqueOpIds(plan) ==
    \A i, j \in 1..Len(plan.operations) :
      plan.operations[i].op_id = plan.operations[j].op_id => i = j

\* C36: every operation in a plan carries an op_id that is unique within the
\* plan, for every plan the planner commands write, including plans
\* extended with --append and plans merged by plan compose.
C36_OpIdsUnique ==
    plan_out # NoPlanFile => UniqueOpIds(plan_out)

\* the effect of the apply command's loop over the operations from the i-th
\* on: the workbook it leaves and whether every operation was applied
RECURSIVE ApplyEffect(_, _, _)
ApplyEffect(wb, ops, i) ==
    IF i > Len(ops) THEN [ok |-> TRUE, wb |-> wb]
    ELSE LET r == apply_op(wb, ops[i])
         IN IF ContinueAfter(r) /\ r.change.target # "skipped"
            THEN ApplyEffect(r.wb, ops, i + 1)
            ELSE [ok |-> FALSE, wb |-> r.wb]

\* C37: a workflow apply step has the same effect on the workbook model as
\* the apply command given the same plan: every operation is executed in
\* declared order with its declared arguments, and the step reports ok only
\* if all of the plan's operations were applied.
C37_ApplyStepAsApplyCommand ==
    [][ \A p \in Procs :
          ( /\ StepSucceeded(p)
            /\ CurrentStep(p).run = "apply" )
          => LET e == ApplyEffect(ctx[p].wb, CurrentStep(p).args.plan.operations, 1)
             IN e.ok /\ ctx'[p].wb = e.wb ]_vars

\* a step of the atomic write of process p (write, fsync, rename or the copy
\* that stands in for the rename) raises
WriteFails(p) == pc[p] \in {"save", "move", "copy"} /\ pc'[p] \in {"done", "raised"}

\* C38: if any step of an atomic write to the workbook path fails, the
\* temporary file is unlinked and the path still holds its previous complete
\* contents: no temporary file of the write remains, the failing step leaves
\* the file as it was, and the file is not a partial copy of the new bytes.
C38_FailedWriteLeavesTarget ==
    [][ \A p \in Procs :
          WriteFails(p)
          => /\ p \notin DOMAIN tmp'
             /\ disk' = disk
             /\ p \in DOMAIN tmp => disk' # Torn(tmp[p]) ]_vars

\* a backed-up mutation that was written and reported success
BackedUpMutation(p) ==
    /\ pc[p] = "done"
    /\ kind[p] = "cell.set"
    /\ args[p].backup /\ ~args[p].dry_run
    /\ Len(stdout[p]) = 1 /\ stdout[p][1].ok

\* C39: every mutation that ran with backup and without dry_run, one after
\* the other, has left a backup file whose content is the workbook as it was
\* immediately before that mutation, also when several of them fall within
\* the same second.
C39_EachMutationHasItsBackup ==
    \A p \in Procs :
      BackedUpMutation(p)
      => \E n \in DOMAIN backups : fingerprint(backups[n]) = ctx[p].fp

\* a lock acquisition with timeout = 0 fails in this step
FailsAtOnce(p) ==
    /\ kind[p] = "holder" /\ args[p].timeout = 0
    /\ pc[p] = "begin" /\ pc'[p] = "blocked"

\* C40: a wb lock-status probe never holds the sidecar lock, and a lock
\* acquisition with timeout = 0 fails only when an invocation that entered
\* WorkbookLock holds the lock.
C40_ProbeNeverBlocks ==
    [][ /\ \A p \in Procs : kind[p] = "wb.lock_status" => lock_owner' # p
        /\ \A p \in Procs :
             FailsAtOnce(p) => lock_owner \in Procs /\ kind[lock_owner] = "holder" ]_vars

=========================================================================
